---- MODULE Spec2Model ----
(***************************************************************************)
(* Spice21: MOS level-0 / level-1 device solvers (comps/mos.rs) and the    *)
(* hierarchy elaborator (elab.rs).                                         *)
(*                                                                         *)
(* Numbers.  The source computes in f64.  Here every quantity is an        *)
(* integer in model units: voltages are even integers, division is         *)
(* truncating integer division (Div), sqrt is the integer square root      *)
(* (Sqrt) and exp is the integer power of two (Exp).  Additions,           *)
(* subtractions and multiplications are exact.                             *)
(*                                                                         *)
(* Options.  Option<T> is a sequence: None is <<>>, Some(x) is <<x>>.  A   *)
(* matrix element handle (Eindex) is Some of its (row, col) pair, written  *)
(* <<row, col>>.                                                           *)
(***************************************************************************)
EXTENDS Integers, Sequences, FiniteSets, TLC

VARIABLES
    kind,       \* the solver the circuit's MOS instance was elaborated to
    mos1,       \* the Mos1 solver: model, intparams, ports, op, guess, matps
    mos0,       \* the Mos0 solver: params, ports, matps
    nvars,      \* Variables: the number of solver unknowns
    phase,      \* "new" before create_matrix_elems, "ready" after, "panic"
                \* once an operation has panicked
    last,       \* the latest load call: its arguments and returned stamps
    lastAc,     \* the latest load_ac call at the accepted operating point
    ncommit,    \* number of commit calls so far
    twin,       \* a second device, related to the first, and its latest stamps
    elab,       \* the Elaborator: comps, vars, defs, path; its call stack
    build       \* the construction of a Mos1 from its model and instance cards

vars == <<kind, mos1, mos0, nvars, phase, last, lastAc, ncommit, twin, elab, build>>

----------------------------------------------------------------------------
(* Option and arithmetic helpers *)

None == <<>>

Some(x) == <<x>>

IsSome(o) == o # None

Unwrap(o) == o[1]

Div(a, b) ==
    IF b = 0 THEN 0
    ELSE IF (a >= 0) = (b > 0)
         THEN (IF a >= 0 THEN a ELSE -a) \div (IF b > 0 THEN b ELSE -b)
         ELSE -((IF a >= 0 THEN a ELSE -a) \div (IF b > 0 THEN b ELSE -b))

SqrtMax == 64

Sqrt(n) ==
    IF n <= 0 THEN 0
    ELSE CHOOSE r \in 0..SqrtMax : r * r <= n /\ (r + 1) * (r + 1) > n

Exp(k) == IF k < 0 THEN 0 ELSE 2 ^ k

Max(a, b) == IF a >= b THEN a ELSE b

RECURSIVE SeqSum(_)
SeqSum(s) == IF s = <<>> THEN 0 ELSE Head(s) + SeqSum(Tail(s))

----------------------------------------------------------------------------
(* Terminals, polarity *)

MosTerm == {"D", "G", "S", "B"}

Mos1Var == {"D", "G", "S", "B", "DP", "SP"}

MosType == {"NMOS", "PMOS"}

\* a polarity factor that takes every device for an n-channel one
PAlwaysN(mos_type) == 1

\* MosType::p
P(mos_type) == IF mos_type = "PMOS" THEN -1 ELSE 1

----------------------------------------------------------------------------
(* Collaborators that are not part of comps/mos.rs *)

\* Variables::get : the value of a variable; ground (None) reads as zero
VarsGet(x, v) == IF v = None THEN 0 ELSE x[Unwrap(v)]

\* make_matrix_elem : reserve (row, col); None when either is ground
MakeMatrixElem(row, col) ==
    IF row = None \/ col = None THEN None ELSE <<Unwrap(row), Unwrap(col)>>

\* Options::default : gmin, and the temperature in model units
Gmin == 1

TempDefault == 1

OptionsDefault == [temp |-> TempDefault, gmin |-> Gmin]

\* consts::KB_OVER_Q in model units: the thermal voltage at TempDefault is 2
KbOverQ == 2

\* conductances are in units of 1/ResScale so that 1/r is an integer
ResScale == 4

ChargeIntegDefault == [g |-> 0, i |-> 0, rhs |-> 0]

\* TranState::integq, trapezoidal order 1 with step h
Integq(state, dq, c, v, ip) ==
    LET geq == Div(2 * c, state.h)
        ieq == geq * v - ip
    IN [g |-> geq, i |-> ieq, rhs |-> geq * v - ieq]

AnOp == [kind |-> "OP", h |-> 0, omega |-> 0]

AnTran(h) == [kind |-> "TRAN", h |-> h, omega |-> 0]

AnAc(w) == [kind |-> "AC", h |-> 0, omega |-> w]

----------------------------------------------------------------------------
(* Stamps.  A g entry is (handle, value); pos names the pointer-table slot *)
(* (row terminal, col terminal) the handle was read from.  A b entry is    *)
(* (variable, value); t names the port the variable was read from.         *)

GEntry(matps, r, c, val) == [pos |-> <<r, c>>, h |-> matps[<<r, c>>], v |-> val]

BEntry(ports, t, val) == [t |-> t, var |-> ports[t], v |-> val]

NoStamps == [g |-> <<>>, b |-> <<>>]

----------------------------------------------------------------------------
(* Mos0: the level-zero solver *)

\* Mos0Params::default
Mos0Vth == 1

Mos0Beta == 2

Mos0Lam == 1

Mos0ParamsDefault(mos_type) ==
    [mos_type |-> mos_type, vth |-> Mos0Vth, beta |-> Mos0Beta, lam |-> Mos0Lam]

\* Mos0::new
Mos0New(ports, mos_type) ==
    [params |-> Mos0ParamsDefault(mos_type),
     ports  |-> ports,
     matps  |-> [p \in MosTerm \X MosTerm |-> None]]

\* the (row, col) pairs Mos0::create_matrix_elems reserves
Mos0ReservedPairs ==
    {<<"D", "D">>, <<"S", "S">>, <<"D", "S">>, <<"S", "D">>, <<"D", "G">>, <<"S", "G">>}

\* Mos0::create_matrix_elems without the two gate-column elements
Mos0CreateMatrixElemsNoGate(m) ==
    [m EXCEPT !.matps =
        [p \in MosTerm \X MosTerm |->
            IF p \in Mos0ReservedPairs /\ p[2] # "G"
            THEN MakeMatrixElem(m.ports[p[1]], m.ports[p[2]])
            ELSE m.matps[p]]]

\* Mos0::create_matrix_elems
Mos0CreateMatrixElems(m) ==
    [m EXCEPT !.matps =
        [p \in MosTerm \X MosTerm |->
            IF p \in Mos0ReservedPairs
            THEN MakeMatrixElem(m.ports[p[1]], m.ports[p[2]])
            ELSE m.matps[p]]]

\* Mos0::load : the channel evaluation, [reversed, vgs, vds, ids, gm, gds]
Mos0Eval(m, x) ==
    LET vg == VarsGet(x, m.ports["G"])
        vd == VarsGet(x, m.ports["D"])
        vs == VarsGet(x, m.ports["S"])
        p == P(m.params.mos_type)
        vds1 == p * (vd - vs)
        reversed == vds1 < 0
        vgs == IF reversed THEN p * (vg - vd) ELSE p * (vg - vs)
        vds == IF reversed THEN -vds1 ELSE vds1
        vov == vgs - m.params.vth
        lam == m.params.lam
        beta == m.params.beta
        sat == vds >= vov
        ids == IF vov > 0
               THEN IF sat THEN Div(beta, 2) * vov * vov * (1 + lam * vds)
                    ELSE beta * (vov * vds - Div(vds * vds, 2)) * (1 + lam * vds)
               ELSE 0
        gm == IF vov > 0
              THEN IF sat THEN beta * vov * (1 + lam * vds)
                   ELSE beta * vds * (1 + lam * vds)
              ELSE 0
        gds == IF vov > 0
               THEN IF sat THEN Div(lam * beta, 2) * vov * vov
                    ELSE beta * ((vov - vds) * (1 + lam * vds)
                                 + lam * ((vov * vds) - Div(vds * vds, 2)))
               ELSE 0
    IN [reversed |-> reversed, vgs |-> vgs, vds |-> vds, vov |-> vov,
        ids |-> ids, gm |-> gm, gds |-> gds]

\* stamps that keep the netlist's drain and source whatever the bias
Mos0StampsUnreversed(m, e, gmin) ==
    LET p == P(m.params.mos_type)
        irhs == e.ids - e.gm * e.vgs - e.gds * e.vds
    IN [g |-> << GEntry(m.matps, "D", "D", e.gds + gmin),
                 GEntry(m.matps, "S", "S", e.gm + e.gds + gmin),
                 GEntry(m.matps, "D", "S", -(e.gm + e.gds + gmin)),
                 GEntry(m.matps, "S", "D", -e.gds - gmin),
                 GEntry(m.matps, "D", "G", e.gm),
                 GEntry(m.matps, "S", "G", -e.gm) >>,
        b |-> << BEntry(m.ports, "D", -p * irhs),
                 BEntry(m.ports, "S", p * irhs) >>]

\* Mos0::load : the stamps of the evaluated channel e
Mos0Stamps(m, e, gmin) ==
    LET p == P(m.params.mos_type)
        sr == IF ~e.reversed THEN "S" ELSE "D"
        dr == IF ~e.reversed THEN "D" ELSE "S"
        irhs == e.ids - e.gm * e.vgs - e.gds * e.vds
    IN [g |-> << GEntry(m.matps, dr, dr, e.gds + gmin),
                 GEntry(m.matps, sr, sr, e.gm + e.gds + gmin),
                 GEntry(m.matps, dr, sr, -(e.gm + e.gds + gmin)),
                 GEntry(m.matps, sr, dr, -e.gds - gmin),
                 GEntry(m.matps, dr, "G", e.gm),
                 GEntry(m.matps, sr, "G", -e.gm) >>,
        b |-> << BEntry(m.ports, dr, -p * irhs),
                 BEntry(m.ports, sr, p * irhs) >>]

\* a Mos0::load that adds gmin to the diagonal entries only
Mos0LoadGminOnDiagonal(m, x, gmin) ==
    LET e == Mos0Eval(m, x)
        p == P(m.params.mos_type)
        sr == IF ~e.reversed THEN "S" ELSE "D"
        dr == IF ~e.reversed THEN "D" ELSE "S"
        irhs == e.ids - e.gm * e.vgs - e.gds * e.vds
    IN [g |-> << GEntry(m.matps, dr, dr, e.gds + gmin),
                 GEntry(m.matps, sr, sr, e.gm + e.gds + gmin),
                 GEntry(m.matps, dr, sr, -(e.gm + e.gds)),
                 GEntry(m.matps, sr, dr, -e.gds),
                 GEntry(m.matps, dr, "G", e.gm),
                 GEntry(m.matps, sr, "G", -e.gm) >>,
        b |-> << BEntry(m.ports, dr, -p * irhs),
                 BEntry(m.ports, sr, p * irhs) >>]

\* Mos0::load : the returned stamps
Mos0Load(m, x, gmin) == Mos0Stamps(m, Mos0Eval(m, x), gmin)

----------------------------------------------------------------------------
(* Mos1: model, instance and internal parameters *)

\* Mos1InstanceParams::resolve defaults, in model units (1 = 1e-6 m)
Mos1InstanceParamsDefault ==
    [l |-> 1, w |-> 1, a_d |-> 1, a_s |-> 1, pd |-> 1, ps |-> 1,
     nrd |-> 1, nrs |-> 1, temp |-> None]

\* MosJunction::default
MosJunctionDefault ==
    [area |-> 0, isat |-> 0, depletion_threshold |-> 0, bulkpot_t |-> 0,
     czb |-> 0, czbsw |-> 0, f2 |-> 0, f3 |-> 0]

\* Mos1InternalParams::derive, the junc_new closure.  The device is at its
\* nominal temperature, so the temperature-adjusted values equal the model's.
\* fc = mj = mjsw = 1/2, for which f2 = 0.707 (czb + czbsw) and
\* f3 = 1.414 (czb + czbsw) / bulkpot_t.
JuncNew(model, inst, area, perim, sd) ==
    LET use_default_isat == model.js = 0 \/ inst.a_d = 0 \/ inst.a_s = 0
        isat == IF use_default_isat THEN model.is ELSE model.js * area
        czb == IF sd = "D"
               THEN (IF model.cbd = 0 THEN model.cj * area ELSE model.cbd)
               ELSE (IF model.cbs = 0 THEN model.cj * area ELSE model.cbs)
        czbsw == model.cjsw * perim
    IN [area |-> area, isat |-> isat,
        depletion_threshold |-> Div(model.pb, 2),
        bulkpot_t |-> model.pb,
        czb |-> czb, czbsw |-> czbsw,
        f2 |-> Div(7 * (czb + czbsw), 10),
        f3 |-> Div(14 * (czb + czbsw), 10 * model.pb)]

\* Mos1InternalParams::derive, terminal ohmic resistances: grs
DeriveGrs(model, inst) ==
    IF IsSome(model.rs)
    THEN (IF Unwrap(model.rs) <= 0 THEN 0 ELSE Div(ResScale, Unwrap(model.rs)))
    ELSE IF IsSome(model.rsh)
         THEN (IF Unwrap(model.rsh) <= 0 THEN 0
               ELSE Div(Div(ResScale, Unwrap(model.rsh)), inst.nrs))
         ELSE 0

\* Mos1InternalParams::derive, terminal ohmic resistances: grd
DeriveGrd(model, inst) ==
    IF IsSome(model.rd)
    THEN (IF Unwrap(model.rd) <= 0 THEN 0 ELSE Div(ResScale, Unwrap(model.rd)))
    ELSE IF IsSome(model.rsh)
         THEN (IF Unwrap(model.rsh) <= 0 THEN 0
               ELSE Div(Div(ResScale, Unwrap(model.rsh)), inst.nrd))
         ELSE 0

\* the f64 value of x / 0.0 for x > 0
Infinity == 1000000

\* the temperature-adjusted transconductance of derive:
\* model.kp / temp_ratio * temp_ratio.sqrt(), evaluated left to right
KpT(kp, temp, tnom) ==
    LET temp_ratio == Div(temp, tnom)
    IN Div(kp, temp_ratio) * Sqrt(temp_ratio)

\* beta of derive: kp_t * inst.w / leff
Beta(kp_t, w, leff) == IF leff = 0 THEN Infinity ELSE Div(kp_t * w, leff)

\* Mos1InternalParams::derive, at the nominal temperature (temp = tnom)
Derive(model, inst, opts) ==
    LET temp == opts.temp
        leff == inst.l - 2 * model.ld
        kp_t == KpT(model.kp, temp, temp)
    IN [temp |-> temp,
        vt0_t |-> model.vt0,
        kp_t |-> kp_t,
        vtherm |-> temp * KbOverQ,
        leff |-> leff,
        cox |-> model.cox_per_area * leff * inst.w,
        beta |-> Beta(kp_t, inst.w, leff),
        phi_t |-> model.phi,
        drain_junc |-> JuncNew(model, inst, inst.a_d, inst.pd, "D"),
        source_junc |-> JuncNew(model, inst, inst.a_s, inst.ps, "S"),
        cgs_ov |-> inst.w * model.cgso,
        cgd_ov |-> inst.w * model.cgdo,
        cgb_ov |-> leff * model.cgbo,
        grs |-> DeriveGrs(model, inst),
        grd |-> DeriveGrd(model, inst)]

\* MosJunction::qc : the capacitance (callers discard the charge)
Qc(j, v) ==
    IF j.czb = 0 /\ j.czbsw = 0 THEN 0
    ELSE IF v < j.depletion_threshold
         THEN LET sarg == Sqrt(16 * j.bulkpot_t)
                  darg == Sqrt(16 * (j.bulkpot_t - v))
              IN Div(j.czb * sarg, darg) + Div(j.czbsw * sarg, darg)
         ELSE j.f2 + v * j.f3

\* Mos1TranState::default
Mos1TranStateDefault ==
    [gs |-> ChargeIntegDefault, gd |-> ChargeIntegDefault, gb |-> ChargeIntegDefault,
     bs |-> ChargeIntegDefault, bd |-> ChargeIntegDefault]

\* Mos1OpPoint::default
Mos1OpPointDefault ==
    [ids |-> 0, vgs |-> 0, vds |-> 0, vgd |-> 0, vgb |-> 0, vdb |-> 0, vsb |-> 0,
     gm |-> 0, gds |-> 0, gmbs |-> 0, gbs |-> 0, gbd |-> 0,
     cgs |-> 0, cgd |-> 0, cgb |-> 0, cbs |-> 0, cbd |-> 0,
     reversed |-> FALSE, tr |-> Mos1TranStateDefault]

\* Mos1Vars::from : dp and sp are new variables when rd / rs / rsh is given;
\* len is the length of the registry, vars.add returns the next index
Mos1VarsFrom(terms, model, len) ==
    LET newdp == IsSome(model.rd) \/ IsSome(model.rsh)
        newsp == IsSome(model.rs) \/ IsSome(model.rsh)
        dp == IF newdp THEN Some(len) ELSE terms.d
        sp == IF newsp THEN Some(IF newdp THEN len + 1 ELSE len) ELSE terms.s
    IN [D |-> terms.d, G |-> terms.g, S |-> terms.s, B |-> terms.b, DP |-> dp, SP |-> sp]

\* the length of the registry after Mos1Vars::from
NvarsAfter(model, len) ==
    len + (IF IsSome(model.rd) \/ IsSome(model.rsh) THEN 1 ELSE 0)
          + (IF IsSome(model.rs) \/ IsSome(model.rsh) THEN 1 ELSE 0)

\* Mos1 { .. Default::default() } as the elaborator builds it
Mos1New(model, inst, ports, opts) ==
    [model |-> model,
     intparams |-> Derive(model, inst, opts),
     ports |-> ports,
     op |-> Mos1OpPointDefault,
     guess |-> Mos1OpPointDefault,
     matps |-> [p \in Mos1Var \X Mos1Var |-> None]]

----------------------------------------------------------------------------
(* Mos1: from the model and instance cards to the solver *)

\* Option::unwrap_or, the "if let Some(val) = .. { val } else { default }"
OrElse(o, default) == IF o = None THEN default ELSE o[1]

LnMax == 16

\* f64::ln, as the integer logarithm to the base of Exp
Ln(n) ==
    IF n <= 1 THEN 0
    ELSE CHOOSE k \in 0..LnMax : 2 ^ k <= n /\ n < 2 ^ (k + 1)

\* defaults and physical constants of Mos1Model::resolve, in model units
KpDefault == 2

PhiDefault == 2

PhiMin == 1

U0Default == 1

Sio2Permittivity == 12

\* the intrinsic carrier concentration n_i, and the cm^-3 to m^-3 factor
Ni == 4

CmToM == 2

Egfet1 == 2

WkfngMetal == 3

WkfngBase == 3

GammaK == 8

PbDefault == 4

IsDefault == 2

JsDefault == 2

\* proto::Mos1Model : a model card; absent parameters are None
ModelSpecs(mos_type, tox, nsub, tpg, ld, rd, rs, rsh) ==
    [mos_type |-> mos_type, vt0 |-> None, kp |-> None, phi |-> None, gamma |-> None,
     u0 |-> None, nss |-> None, lambda |-> None, pb |-> None, cbd |-> None,
     cbs |-> None, cgso |-> None, cgdo |-> None, cgbo |-> None, cj |-> None,
     cjsw |-> None, is |-> None, js |-> None,
     tox |-> tox, nsub |-> nsub, tpg |-> tpg, ld |-> ld,
     rd |-> rd, rs |-> rs, rsh |-> rsh]

\* Mos1Model::resolve, the parameters that depend on tox and nsub:
\* [cox_per_area, vt0, kp, phi, gamma]
ResolveTox(specs) ==
    LET p == P(specs.mos_type)
        vtnom == TempDefault * KbOverQ
        withtox == IsSome(specs.tox)
        withnsub == withtox /\ IsSome(specs.nsub)
        cox_per_area == IF withtox THEN Div(Sio2Permittivity, specs.tox[1]) ELSE 0
        kp == IF withtox /\ specs.kp = None
              THEN OrElse(specs.u0, U0Default) * cox_per_area
              ELSE OrElse(specs.kp, KpDefault)
        phi == IF withnsub /\ specs.phi = None
               THEN Max(2 * vtnom * Ln(Div(specs.nsub[1] * CmToM, Ni)), PhiMin)
               ELSE OrElse(specs.phi, PhiDefault)
        fermis == p * Div(phi, 2)
        gate_type == OrElse(specs.tpg, 1)
        wkfng == IF gate_type # 0
                 THEN WkfngBase + Div(Egfet1, 2) - p * gate_type * Div(Egfet1, 2)
                 ELSE WkfngMetal
        gamma == IF withnsub /\ specs.gamma = None
                 THEN Div(Sqrt(GammaK * specs.nsub[1] * CmToM), cox_per_area)
                 ELSE OrElse(specs.gamma, 0)
        wkfngs == wkfng - (WkfngBase + Div(Egfet1, 2) + fermis)
        vfb == wkfngs - Div(OrElse(specs.nss, 0), cox_per_area)
        vt0 == IF withnsub /\ specs.vt0 = None
               THEN vfb + p * (gamma * Sqrt(phi) + phi)
               ELSE OrElse(specs.vt0, 0)
    IN [cox_per_area |-> cox_per_area, vt0 |-> vt0, kp |-> kp, phi |-> phi,
        gamma |-> gamma]

\* Mos1Model::resolve : the resolved model, or the panic it ends in
Mos1ModelResolve(specs) ==
    IF IsSome(specs.tox) /\ IsSome(specs.nsub) /\ specs.nsub[1] * CmToM <= Ni
    THEN [status |-> "panic", msg |-> "Invalid Mos1 Substrate Doping nsub < ni"]
    ELSE IF IsSome(specs.tox) /\ IsSome(specs.nsub) /\ IsSome(specs.tpg)
            /\ (specs.tpg[1] > 1 \/ specs.tpg[1] < -1)
    THEN [status |-> "panic", msg |-> "Invalid Mos1 tps"]
    ELSE [status |-> "ok",
          model |-> [mos_type |-> specs.mos_type,
                     vt0 |-> ResolveTox(specs).vt0,
                     kp |-> ResolveTox(specs).kp,
                     cox_per_area |-> ResolveTox(specs).cox_per_area,
                     gamma |-> ResolveTox(specs).gamma,
                     phi |-> ResolveTox(specs).phi,
                     lambda |-> OrElse(specs.lambda, 0),
                     pb |-> OrElse(specs.pb, PbDefault),
                     cbd |-> OrElse(specs.cbd, 0),
                     cbs |-> OrElse(specs.cbs, 0),
                     cgso |-> OrElse(specs.cgso, 0),
                     cgdo |-> OrElse(specs.cgdo, 0),
                     cgbo |-> OrElse(specs.cgbo, 0),
                     cj |-> OrElse(specs.cj, 0),
                     cjsw |-> OrElse(specs.cjsw, 0),
                     is |-> OrElse(specs.is, IsDefault),
                     js |-> OrElse(specs.js, JsDefault),
                     ld |-> OrElse(specs.ld, 0),
                     rd |-> specs.rd, rs |-> specs.rs, rsh |-> specs.rsh]]

\* proto::Mos1InstParams : an instance card; absent parameters are None
InstSpecs(l, temp) ==
    [l |-> l, w |-> None, a_d |-> None, a_s |-> None, pd |-> None, ps |-> None,
     nrd |-> None, nrs |-> None, temp |-> temp]

\* Mos1InstanceParams::resolve
Mos1InstanceParamsResolve(specs) ==
    [l |-> OrElse(specs.l, Mos1InstanceParamsDefault.l),
     w |-> OrElse(specs.w, Mos1InstanceParamsDefault.w),
     a_d |-> OrElse(specs.a_d, Mos1InstanceParamsDefault.a_d),
     a_s |-> OrElse(specs.a_s, Mos1InstanceParamsDefault.a_s),
     pd |-> OrElse(specs.pd, Mos1InstanceParamsDefault.pd),
     ps |-> OrElse(specs.ps, Mos1InstanceParamsDefault.ps),
     nrd |-> OrElse(specs.nrd, Mos1InstanceParamsDefault.nrd),
     nrs |-> OrElse(specs.nrs, Mos1InstanceParamsDefault.nrs),
     temp |-> specs.temp]

\* a derive that takes the instance temperature where one is given
DeriveResultAtInstTemp(model, inst, opts) ==
    IF inst.l - 2 * model.ld < 0
    THEN [status |-> "panic", msg |-> "Mos1 Effective Length < 0"]
    ELSE [status |-> "ok",
          intp |-> Derive(model, inst, [opts EXCEPT !.temp = OrElse(inst.temp, opts.temp)])]

\* Mos1InternalParams::derive : the internal parameters, or the panic it ends in
DeriveResult(model, inst, opts) ==
    IF IsSome(inst.temp)
    THEN [status |-> "panic", msg |-> "Mos1 Instance Temperatures Are Not Supported"]
    ELSE IF inst.l - 2 * model.ld < 0
    THEN [status |-> "panic", msg |-> "Mos1 Effective Length < 0"]
    ELSE [status |-> "ok", intp |-> Derive(model, inst, opts)]

\* no construction under way
NoBuild ==
    [stage |-> "none", mspecs |-> <<>>, ispecs |-> <<>>, terms |-> <<>>, len |-> 0,
     model |-> <<>>, inst |-> <<>>, intp |-> <<>>, ports |-> <<>>, nvars |-> 0,
     msg |-> "", tadj |-> <<>>]

\* Mos1::vs
Vs(m, x) == [t \in Mos1Var |-> VarsGet(x, m.ports[t])]

----------------------------------------------------------------------------
(* Mos1::op_stamp, in the order of the source *)

\* terminal voltages that keep the netlist's drain and source whatever the bias
OpVoltagesUnreversed(m, v) ==
    LET p == P(m.model.mos_type)
    IN [p |-> p, reversed |-> FALSE,
        vgs |-> p * (v["G"] - v["S"]),
        vgd |-> p * (v["G"] - v["D"]),
        vds |-> p * (v["D"] - v["S"]),
        vgb |-> p * (v["G"] - v["B"]),
        vsb |-> p * (v["S"] - v["B"]),
        vdb |-> p * (v["D"] - v["B"])]

\* polarity and source/drain reversal; terminal voltages
OpVoltages(m, v) ==
    LET p == P(m.model.mos_type)
        reversed == p * (v["D"] - v["S"]) < 0
        vd == IF reversed THEN v["S"] ELSE v["D"]
        vs == IF reversed THEN v["D"] ELSE v["S"]
    IN [p |-> p, reversed |-> reversed,
        vgs |-> p * (v["G"] - vs),
        vgd |-> p * (v["G"] - vd),
        vds |-> p * (vd - vs),
        vgb |-> p * (v["G"] - v["B"]),
        vsb |-> p * (vs - v["B"]),
        vdb |-> p * (vd - v["B"])]

\* threshold and body effect
Von(m, vsb) ==
    IF vsb > 0
    THEN m.intparams.vt0_t
         + m.model.gamma * (Sqrt(m.intparams.phi_t + vsb) - Sqrt(m.intparams.phi_t))
    ELSE m.intparams.vt0_t

\* a channel evaluation that uses the saturation expressions at every vds
OpChannelNoTriode(m, e) ==
    LET intp == m.intparams
        lambda == m.model.lambda
        vov == e.vgs - Von(m, e.vsb)
        vds == e.vds
        ids == IF vov > 0 THEN Div(intp.beta, 2) * vov * vov * (1 + lambda * vds) ELSE 0
        gm == IF vov > 0 THEN intp.beta * vov * (1 + lambda * vds) ELSE 0
        gds == IF vov > 0 THEN Div(lambda * intp.beta, 2) * vov * vov ELSE 0
        gmbs == IF vov > 0 /\ intp.phi_t + e.vsb > 0
                THEN Div(Div(gm * m.model.gamma, 2), Sqrt(intp.phi_t + e.vsb))
                ELSE 0
    IN [vov |-> vov, ids |-> ids, gm |-> gm, gds |-> gds, gmbs |-> gmbs]

\* drain current and its derivatives: [ids, gm, gds, gmbs]
OpChannel(m, e) ==
    LET intp == m.intparams
        lambda == m.model.lambda
        vov == e.vgs - Von(m, e.vsb)
        vds == e.vds
        sat == vds >= vov
        ids == IF vov > 0
               THEN IF sat THEN Div(intp.beta, 2) * vov * vov * (1 + lambda * vds)
                    ELSE intp.beta * (vov * vds - Div(vds * vds, 2)) * (1 + lambda * vds)
               ELSE 0
        gm == IF vov > 0
              THEN IF sat THEN intp.beta * vov * (1 + lambda * vds)
                   ELSE intp.beta * vds * (1 + lambda * vds)
              ELSE 0
        gds == IF vov > 0
               THEN IF sat THEN Div(lambda * intp.beta, 2) * vov * vov
                    ELSE intp.beta * ((vov - vds) * (1 + lambda * vds)
                                      + lambda * ((vov * vds) - Div(vds * vds, 2)))
               ELSE 0
        gmbs == IF vov > 0 /\ intp.phi_t + e.vsb > 0
                THEN Div(Div(gm * m.model.gamma, 2), Sqrt(intp.phi_t + e.vsb))
                ELSE 0
    IN [vov |-> vov, ids |-> ids, gm |-> gm, gds |-> gds, gmbs |-> gmbs]

\* bulk junction diodes: [bs_junc, bd_junc, ibs, gbs, ibs_rhs, ibd, gbd, ibd_rhs]
OpJunctions(m, e, gmin) ==
    LET intp == m.intparams
        vtherm == intp.vtherm
        bs_junc == IF ~e.reversed THEN intp.source_junc ELSE intp.drain_junc
        bd_junc == IF ~e.reversed THEN intp.drain_junc ELSE intp.source_junc
        ibs == bs_junc.isat * (Exp(Div(-e.vsb, vtherm)) - 1)
        gbs == Div(bs_junc.isat, vtherm) * Exp(Div(-e.vsb, vtherm)) + gmin
        ibd == bd_junc.isat * (Exp(Div(-e.vdb, vtherm)) - 1)
        gbd == Div(bd_junc.isat, vtherm) * Exp(Div(-e.vdb, vtherm)) + gmin
    IN [bs_junc |-> bs_junc, bd_junc |-> bd_junc,
        ibs |-> ibs, gbs |-> gbs, ibs_rhs |-> ibs + e.vsb * gbs,
        ibd |-> ibd, gbd |-> gbd, ibd_rhs |-> ibd + e.vdb * gbd]

\* Meyer capacitances of this iterate: [cgs1, cgd1, cgb1]
OpMeyer(m, vov, vds) ==
    LET cox == m.intparams.cox
        phi_t == m.intparams.phi_t
        vdsat == Max(vov, 0)
        vddif == 2 * vdsat - vds
        vddif1 == vdsat - vds
        vddif2 == vddif * vddif
    IN IF vov <= -phi_t
       THEN [cgb1 |-> Div(cox, 2), cgs1 |-> 0, cgd1 |-> 0]
       ELSE IF 2 * vov <= -phi_t
       THEN [cgb1 |-> Div(-vov * cox, 2 * phi_t), cgs1 |-> 0, cgd1 |-> 0]
       ELSE IF vov <= 0
       THEN [cgb1 |-> Div(-vov * cox, 2 * phi_t),
             cgs1 |-> Div(2 * vov * cox, 3 * phi_t) + Div(cox, 3),
             cgd1 |-> 0]
       ELSE IF vdsat <= vds
       THEN [cgs1 |-> Div(cox, 3), cgd1 |-> 0, cgb1 |-> 0]
       ELSE [cgd1 |-> Div(cox * (vddif2 - vdsat * vdsat), 3 * vddif2),
             cgs1 |-> Div(cox * (vddif2 - vddif1 * vddif1), 3 * vddif2),
             cgb1 |-> 0]

\* OpCaps reading the history from the guess instead of the accepted point
OpCapsFromGuess(m, e, c1) ==
    LET op == m.guess
        intp == m.intparams
        cgs2 == IF op.cgs = 0 THEN c1.cgs1
                ELSE IF e.reversed = op.reversed THEN op.cgs
                ELSE op.cgd
    IN [cgs |-> c1.cgs1 + cgs2 + intp.cgs_ov,
        cgd |-> c1.cgd1 + intp.cgd_ov
                + (IF e.reversed = op.reversed THEN op.cgd ELSE op.cgs),
        cgb |-> c1.cgb1 + intp.cgb_ov + op.cgb]

\* capacitances including the history in the accepted operating point
OpCaps(m, e, c1) ==
    LET op == m.op
        intp == m.intparams
        cgs2 == IF op.cgs = 0 THEN c1.cgs1
                ELSE IF e.reversed = op.reversed THEN op.cgs
                ELSE op.cgd
    IN [cgs |-> c1.cgs1 + cgs2 + intp.cgs_ov,
        cgd |-> c1.cgd1 + intp.cgd_ov
                + (IF e.reversed = op.reversed THEN op.cgd ELSE op.cgs),
        cgb |-> c1.cgb1 + intp.cgb_ov + op.cgb]

\* transient updates that integrate the gate capacitors in every analysis,
\* with a unit step
OpTranInEveryAnalysis(m, e, c, cbs, cbd, an) ==
    [Mos1TranStateDefault EXCEPT
        !.gs = Integq(AnTran(1), 0, c.cgs, e.vgs, m.op.tr.gs.i),
        !.gb = Integq(AnTran(1), 0, c.cgb, e.vgb, m.op.tr.gb.i)]

\* transient updates: the numerical integration of each capacitor
OpTran(m, e, c, cbs, cbd, an) ==
    IF an.kind # "TRAN" THEN Mos1TranStateDefault
    ELSE
    LET op == m.op
        same == e.reversed = op.reversed
        dqgs == IF same THEN (e.vgs - op.vgs) * c.cgs ELSE (e.vgs - op.vgd) * c.cgs
        ipgs == IF same THEN op.tr.gs.i ELSE op.tr.gd.i
        tr1 == [Mos1TranStateDefault EXCEPT !.gs = Integq(an, dqgs, c.cgs, e.vgs, ipgs)]
        dqgd == IF same THEN (e.vgd - op.vgd) * c.cgd ELSE (e.vgd - op.vgs) * c.cgd
        ipgd == IF same THEN op.tr.gd.i ELSE op.tr.gs.i
        tr2 == [tr1 EXCEPT !.gs = Integq(an, dqgd, c.cgd, e.vgd, ipgd)]
        dqgb == (e.vgb - op.vgb) * c.cgb
        tr3 == [tr2 EXCEPT !.gb = Integq(an, dqgb, c.cgb, e.vgb, op.tr.gb.i)]
        dqbs == IF same THEN (-e.vsb + op.vsb) * cbs ELSE (-e.vsb + op.vdb) * cbs
        dqbd == IF same THEN (-e.vdb + op.vdb) * cbd ELSE (-e.vdb + op.vsb) * cbd
        isp == IF same THEN op.tr.gs.i ELSE op.tr.gd.i
        idp == IF same THEN op.tr.gd.i ELSE op.tr.gs.i
    IN [tr3 EXCEPT !.bs = Integq(an, dqbs, cbs, -e.vsb, isp),
                   !.bd = Integq(an, dqbd, cbd, -e.vdb, idp)]

\* Mos1::op_stamp, its last part: the operating point and the matrix stamps
\* it returns.  e are the terminal voltages, ch the channel, j the junctions,
\* c1 the Meyer capacitances, tr the transient state.
OpStampOut(m, e, ch, j, c1, cbs, cbd, tr) ==
    LET p == e.p
        gm == ch.gm
        gds == ch.gds
        gmbs == ch.gmbs
        gbs == j.gbs
        gbd == j.gbd
        irhs == ch.ids - ch.gm * e.vgs - ch.gds * e.vds
        sr == IF ~e.reversed THEN "SP" ELSE "DP"
        sx == IF ~e.reversed THEN "S" ELSE "D"
        dr == IF ~e.reversed THEN "DP" ELSE "SP"
        dx == IF ~e.reversed THEN "D" ELSE "S"
        grd == m.intparams.grd
        grs == m.intparams.grs
        mp == m.matps
    IN [stamps |->
          [g |-> << GEntry(mp, dr, dr, gds + grd + gbd + tr.gd.g),
                    GEntry(mp, sr, sr, gm + gds + grs + gbs + gmbs + tr.gs.g),
                    GEntry(mp, dr, sr, -gm - gds - gmbs),
                    GEntry(mp, sr, dr, -gds),
                    GEntry(mp, dr, "G", gm - tr.gd.g),
                    GEntry(mp, sr, "G", -gm - tr.gs.g),
                    GEntry(mp, "G", "G", tr.gd.g + tr.gs.g + tr.gb.g),
                    GEntry(mp, "B", "B", gbd + gbs + tr.gb.g),
                    GEntry(mp, "G", "B", -tr.gb.g),
                    GEntry(mp, "G", dr, -tr.gd.g),
                    GEntry(mp, "G", sr, -tr.gs.g),
                    GEntry(mp, "B", "G", -tr.gb.g),
                    GEntry(mp, "B", dr, -gbd),
                    GEntry(mp, "B", sr, -gbs),
                    GEntry(mp, dr, "B", -gbd + gmbs),
                    GEntry(mp, sr, "B", -gbs - gmbs),
                    GEntry(mp, dx, dr, -grd),
                    GEntry(mp, dr, dx, -grd),
                    GEntry(mp, dx, dx, grd),
                    GEntry(mp, sx, sr, -grs),
                    GEntry(mp, sr, sx, -grs),
                    GEntry(mp, sx, sx, grs) >>,
           b |-> << BEntry(m.ports, dr, p * (-irhs + j.ibd_rhs + tr.gd.rhs)),
                    BEntry(m.ports, sr, p * (irhs + j.ibs_rhs + tr.gs.rhs)),
                    BEntry(m.ports, "G", -p * (tr.gs.rhs + tr.gb.rhs + tr.gd.rhs)),
                    BEntry(m.ports, "B", -p * (j.ibd_rhs + j.ibs_rhs - tr.gb.rhs)) >>],
        op |->
          [ids |-> ch.ids, vgs |-> e.vgs, vds |-> e.vds, vgd |-> e.vgd, vgb |-> e.vgb,
           vdb |-> e.vdb, vsb |-> e.vsb, gm |-> gm, gds |-> gds, gmbs |-> gmbs,
           gbs |-> gbs, gbd |-> gbd, reversed |-> e.reversed,
           cgs |-> c1.cgs1, cgd |-> c1.cgd1, cgb |-> c1.cgb1,
           cbs |-> cbs, cbd |-> cbd, tr |-> tr]]

\* Mos1::op_stamp from the capacitances on: history, transient integration
OpStampTran(m, e, ch, j, c1, cbs, cbd, an) ==
    OpStampOut(m, e, ch, j, c1, cbs, cbd, OpTran(m, e, OpCaps(m, e, c1), cbs, cbd, an))

\* Mos1::op_stamp from the channel on: Meyer and junction capacitances
OpStampCaps(m, e, ch, j, an) ==
    OpStampTran(m, e, ch, j, OpMeyer(m, ch.vov, e.vds),
                Qc(j.bs_junc, -e.vsb), Qc(j.bd_junc, -e.vdb), an)

\* Mos1::op_stamp from the terminal voltages on: channel and junction diodes
OpStampFrom(m, e, an, opts) ==
    OpStampCaps(m, e, OpChannel(m, e), OpJunctions(m, e, opts.gmin), an)

\* Mos1::op_stamp : the pair (operating point, stamps)
OpStamp(m, v, an, opts) == OpStampFrom(m, OpVoltages(m, v), an, opts)

----------------------------------------------------------------------------
(* Mos1 as a Component *)

\* Mos1::create_matrix_elems reserving the diagonal element of the row for
\* every (row, column) pair
Mos1CreateMatrixElemsOfRow(m) ==
    [m EXCEPT !.matps =
        [p \in Mos1Var \X Mos1Var |-> MakeMatrixElem(m.ports[p[1]], m.ports[p[1]])]]

\* Mos1::create_matrix_elems
Mos1CreateMatrixElems(m) ==
    [m EXCEPT !.matps =
        [p \in Mos1Var \X Mos1Var |-> MakeMatrixElem(m.ports[p[1]], m.ports[p[2]])]]

\* Mos1::commit
Mos1Commit(m) == [m EXCEPT !.op = m.guess]

\* Mos1::load accepting its own result as the operating point
Mos1LoadWritesOp(m, x, an, opts) ==
    LET r == OpStamp(m, Vs(m, x), an, opts)
    IN [self |-> [m EXCEPT !.guess = r.op, !.op = r.op], ret |-> r.stamps]

\* Mos1::load : self is the device after the call, ret the returned stamps
Mos1Load(m, x, an, opts) ==
    LET r == OpStamp(m, Vs(m, x), an, opts)
    IN [self |-> [m EXCEPT !.guess = r.op], ret |-> r.stamps]

\* a complex stamp value
Complex(re, im) == [re |-> re, im |-> im]

\* Mos1::load_ac : the returned stamps; _guess and _opts are not read
Mos1LoadAcStamps(m, x, an, opts) ==
    LET intp == m.intparams
        omega == an.omega
        op == m.op
        gm == op.gm
        gds == op.gds
        gmbs == op.gmbs
        gbs == op.gbs
        gbd == op.gbd
        gcgs == omega * op.cgs
        gcgd == omega * op.cgd
        gcgb == omega * op.cgb
        gcbs == omega * op.cbs
        gcbd == omega * op.cbd
        sr == IF ~op.reversed THEN "SP" ELSE "DP"
        sx == IF ~op.reversed THEN "S" ELSE "D"
        dr == IF ~op.reversed THEN "DP" ELSE "SP"
        dx == IF ~op.reversed THEN "D" ELSE "S"
        mp == m.matps
    IN [g |-> << GEntry(mp, dr, dr, Complex(gds + intp.grd + gbd, gcgd)),
                 GEntry(mp, sr, sr, Complex(gm + gds + intp.grs + gbs + gmbs, gcgs)),
                 GEntry(mp, dr, sr, Complex(-gm - gds - gmbs, 0)),
                 GEntry(mp, sr, dr, Complex(-gds, 0)),
                 GEntry(mp, dr, "G", Complex(gm, -gcgd)),
                 GEntry(mp, sr, "G", Complex(-gm, -gcgs)),
                 GEntry(mp, "G", "G", Complex(0, gcgd + gcgs + gcgb)),
                 GEntry(mp, "B", "B", Complex(gbd + gbs, gcgb)),
                 GEntry(mp, "G", "B", Complex(0, -gcgb)),
                 GEntry(mp, "G", dr, Complex(0, -gcgd)),
                 GEntry(mp, "G", sr, Complex(0, -gcgs)),
                 GEntry(mp, "B", "G", Complex(0, -gcgb)),
                 GEntry(mp, "G", dr, Complex(0, -gcgd)),
                 GEntry(mp, "B", dr, Complex(-gbd, 0)),
                 GEntry(mp, "B", sr, Complex(-gbs, 0)),
                 GEntry(mp, dr, "B", Complex(-gbd + gmbs, 0)),
                 GEntry(mp, sr, "B", Complex(-gbs - gmbs, 0)),
                 GEntry(mp, dx, dr, Complex(-intp.grd, 0)),
                 GEntry(mp, dr, dx, Complex(-intp.grd, 0)),
                 GEntry(mp, dx, dx, Complex(intp.grd, 0)),
                 GEntry(mp, sx, sr, Complex(-intp.grs, 0)),
                 GEntry(mp, sr, sx, Complex(-intp.grs, 0)),
                 GEntry(mp, sx, sx, Complex(intp.grs, 0)) >>,
        b |-> <<>>]


\* a load_ac that linearizes at the guess of the running iteration
Mos1LoadAcFromGuess(m, x, an, opts) ==
    IF an.kind # "AC"
    THEN [self |-> m, ret |-> NoStamps, panic |-> TRUE]
    ELSE [self |-> m, ret |-> Mos1LoadAcStamps([m EXCEPT !.op = m.guess], x, an, opts),
          panic |-> FALSE]

\* Mos1::load_ac : self is the device after the call, ret the returned stamps;
\* an analysis other than AC ends in panic!("Invalid AC AnalysisInfo")
Mos1LoadAc(m, x, an, opts) ==
    IF an.kind # "AC"
    THEN [self |-> m, ret |-> NoStamps, panic |-> TRUE]
    ELSE [self |-> m, ret |-> Mos1LoadAcStamps(m, x, an, opts), panic |-> FALSE]

----------------------------------------------------------------------------
(* The hierarchy elaborator (elab.rs) *)

\* circuit::NodeRef : the ground node and named nodes
Gnd == [tag |-> "Gnd", name |-> ""]

Name(n) == [tag |-> "Name", name |-> n]

\* elab.rs s() : the namespace key of a node
S(node) == IF node.tag = "Gnd" THEN "" ELSE node.name

\* Vec<String>::join(".")
RECURSIVE Join(_)
Join(path) ==
    IF path = <<>> THEN ""
    ELSE IF Len(path) = 1 THEN path[1]
    ELSE path[1] \o "." \o Join(Tail(path))

\* Vec::pop on the path
Pop(path) == SubSeq(path, 1, Len(path) - 1)

\* Variables::add : the registry grows by one, the new index is returned
VarsAdd(vs, vkind, name) ==
    [vars |-> Append(vs, [kind |-> vkind, name |-> name]), var |-> Some(Len(vs))]

\* Variables::find_or_create : the variable of a named node, memoized
FindOrCreate(vs, name) ==
    IF \E i \in DOMAIN vs : vs[i].name = name
    THEN [vars |-> vs, var |-> Some((CHOOSE i \in DOMAIN vs : vs[i].name = name) - 1)]
    ELSE VarsAdd(vs, "V", name)

\* circuit::Comp : a two-terminal primitive (R, C, I), a voltage source (V),
\* a MOSFET (Mos) or a module instance (X); ports is the port map of a
\* module instance, a sequence of (port name, signal name) pairs
Comp(type, name, nodes, ref, params, ports) ==
    [type |-> type, name |-> name, nodes |-> nodes, ref |-> ref, params |-> params,
     ports |-> ports]

\* the Elaborator before elaborate is called
ElabIdle ==
    [status |-> "idle", ckt |-> <<>>, comps |-> <<>>, vars |-> <<>>, path |-> <<>>,
     stack |-> <<>>, resolved |-> <<>>]

\* the working state of one elaborate_instance call: the registry, the
\* namespace and path it works on, whether it is still running (ok), the
\* variables resolved so far (out) and a record of each node_var call
Work(el) ==
    [vars |-> el.vars, ns |-> el.stack[Len(el.stack)].ns, path |-> el.path,
     ok |-> TRUE, out |-> <<>>, resolved |-> <<>>]

\* Elaborator::node_var
NodeVar(w, node, autonode) ==
    IF ~w.ok THEN w
    ELSE IF autonode
    THEN IF node.tag = "Gnd"
         THEN [w EXCEPT !.out = Append(@, None),
                        !.resolved = Append(@, [node |-> node, depth |-> Len(w.path),
                                                res |-> "ok", var |-> None, made |-> 0])]
         ELSE LET pushed == Append(w.path, S(node))
                  r == FindOrCreate(w.vars, Join(pushed))
              IN [w EXCEPT !.vars = r.vars,
                           !.path = Pop(pushed),
                           !.ns = (S(node) :> r.var) @@ w.ns,
                           !.out = Append(@, r.var),
                           !.resolved = Append(@, [node |-> node, depth |-> Len(w.path),
                                                   res |-> "ok", var |-> r.var,
                                                   made |-> Len(r.vars) - Len(w.vars)])]
    ELSE IF S(node) \in DOMAIN w.ns
         THEN [w EXCEPT !.out = Append(@, w.ns[S(node)]),
                        !.resolved = Append(@, [node |-> node, depth |-> Len(w.path),
                                                res |-> "ok", var |-> w.ns[S(node)],
                                                made |-> 0])]
         ELSE [w EXCEPT !.ok = FALSE,
                        !.resolved = Append(@, [node |-> node, depth |-> Len(w.path),
                                                res |-> "panic", var |-> None, made |-> 0])]

\* an elaborate_signal that leaves the signal name on the path
ElaborateSignalNoPop(w, signame) ==
    LET pushed == Append(w.path, signame)
        r == VarsAdd(w.vars, "V", Join(pushed))
    IN [w EXCEPT !.vars = r.vars, !.ns = (signame :> r.var) @@ w.ns, !.path = pushed]

\* Elaborator::elaborate_signal : a new variable at path.signame, added to ns
ElaborateSignal(w, signame) ==
    LET pushed == Append(w.path, signame)
        r == VarsAdd(w.vars, "V", Join(pushed))
    IN [w EXCEPT !.vars = r.vars, !.ns = (signame :> r.var) @@ w.ns, !.path = Pop(pushed)]

\* the signals of a module or of the top level, in order
RECURSIVE ElaborateSignals(_, _)
ElaborateSignals(w, signals) ==
    IF signals = <<>> THEN w
    ELSE ElaborateSignals(ElaborateSignal(w, Head(signals)), Tail(signals))

\* elaborate_instance, Comp::R, Comp::C, Comp::I : p then n
ElabTwoTerm(w, inst, autonode) ==
    NodeVar(NodeVar(w, inst.nodes[1], autonode), inst.nodes[2], autonode)

\* elaborate_instance, Comp::D : p, n, then the internal node r of a model
\* with a series resistance (params "rs"), added under the instance's name
\* between two pushes and two pops of the path; without it r is p
ElabDiode(w, inst, autonode) ==
    LET w2 == ElabTwoTerm(w, inst, autonode)
        pushed == Append(Append(w2.path, inst.name), "r")
        r == VarsAdd(w2.vars, "V", inst.name)
    IN IF ~w2.ok THEN w2
       ELSE IF inst.params = "rs"
       THEN [w2 EXCEPT !.vars = r.vars, !.out = Append(@, r.var), !.path = Pop(Pop(pushed))]
       ELSE [w2 EXCEPT !.out = Append(@, w2.out[Len(w2.out) - 1])]

\* a Comp::V arm that adds the branch current after the node variables
ElabVsrcBranchLast(w, inst, autonode) ==
    LET w2 == ElabTwoTerm([w EXCEPT !.out = <<>>], inst, autonode)
    IN [w2 EXCEPT !.vars = VarsAdd(w2.vars, "I", inst.name).vars,
                  !.out = <<Some(Len(w2.vars))>> \o w2.out]

\* elaborate_instance, Comp::V : the branch current is added first
ElabVsrc(w, inst, autonode) ==
    ElabTwoTerm([w EXCEPT !.vars = VarsAdd(w.vars, "I", inst.name).vars,
                          !.out = <<Some(Len(w.vars))>>], inst, autonode)

\* a Comp::Mos arm that builds a solver whatever model and parameters are named
ElabMosAnyModel(w, inst, autonode, defs) ==
    NodeVar(NodeVar(NodeVar(NodeVar(w, inst.nodes[1], autonode),
            inst.nodes[2], autonode), inst.nodes[3], autonode),
            inst.nodes[4], autonode)

\* elaborate_instance, Comp::Mos : d, g, s, b, then the model lookup
\* (mos1 with its instance parameters, then mos0; no bsim4 models are defined)
ElabMos(w, inst, autonode, defs) ==
    LET w4 == NodeVar(NodeVar(NodeVar(NodeVar(w, inst.nodes[1], autonode),
                      inst.nodes[2], autonode), inst.nodes[3], autonode),
                      inst.nodes[4], autonode)
    IN IF ~w4.ok THEN w4
       ELSE IF inst.ref \in defs.mos1
       THEN (IF inst.params \in defs.mos1insts THEN w4 ELSE [w4 EXCEPT !.ok = FALSE])
       ELSE IF inst.ref \in DOMAIN defs.mos0 THEN w4
       ELSE [w4 EXCEPT !.ok = FALSE]

\* the ComponentSolver pushed for a primitive instance
Solver(inst, defs, ports) ==
    [type |-> IF inst.type # "Mos" THEN inst.type
              ELSE IF inst.ref \in defs.mos1 THEN "Mos1" ELSE "Mos0",
     ports |-> ports]

\* elaborate_instance of a primitive
ElabPrimitive(w, inst, autonode, defs) ==
    IF inst.type = "V" THEN ElabVsrc(w, inst, autonode)
    ELSE IF inst.type = "Mos" THEN ElabMos(w, inst, autonode, defs)
    ELSE IF inst.type = "D" THEN ElabDiode(w, inst, autonode)
    ELSE ElabTwoTerm(w, inst, autonode)

\* the deepest hierarchy elaborate_module_inst accepts
MaxPathLen == 1024

\* an elaborate_module_inst that gives up one level early
ElabModuleInstShallow(el, inst) ==
    LET ns == el.stack[Len(el.stack)].ns
        modules == el.ckt.defs.modules
        keys == {inst.ports[i][1] : i \in DOMAIN inst.ports}
        inst_ns == [k \in keys |->
                      ns[inst.ports[CHOOSE i \in DOMAIN inst.ports : inst.ports[i][1] = k][2]]]
        w == ElaborateSignals([vars |-> el.vars, ns |-> inst_ns,
                               path |-> Append(el.path, inst.name),
                               ok |-> TRUE, out |-> <<>>, resolved |-> <<>>],
                              modules[inst.ref].signals)
    IN IF inst.ref \notin DOMAIN modules THEN [el EXCEPT !.status = "panic"]
       ELSE IF \E i \in DOMAIN inst.ports : inst.ports[i][2] \notin DOMAIN ns
       THEN [el EXCEPT !.status = "panic"]
       ELSE IF Len(el.path) + 1 >= MaxPathLen
       THEN [el EXCEPT !.status = "panic", !.path = Append(@, inst.name)]
       ELSE [el EXCEPT !.vars = w.vars, !.path = w.path,
                       !.stack = Append(@, [ns |-> w.ns, todo |-> modules[inst.ref].comps,
                                            autonode |-> FALSE])]

\* elaborate_module_inst up to its call of elaborate_module, and the signals
\* of elaborate_module: the frame of the module body is pushed
ElabModuleInst(el, inst) ==
    LET ns == el.stack[Len(el.stack)].ns
        modules == el.ckt.defs.modules
        keys == {inst.ports[i][1] : i \in DOMAIN inst.ports}
        inst_ns == [k \in keys |->
                      ns[inst.ports[CHOOSE i \in DOMAIN inst.ports : inst.ports[i][1] = k][2]]]
        w == ElaborateSignals([vars |-> el.vars, ns |-> inst_ns,
                               path |-> Append(el.path, inst.name),
                               ok |-> TRUE, out |-> <<>>, resolved |-> <<>>],
                              modules[inst.ref].signals)
    IN IF inst.ref \notin DOMAIN modules THEN [el EXCEPT !.status = "panic"]
       ELSE IF \E i \in DOMAIN inst.ports : inst.ports[i][2] \notin DOMAIN ns
       THEN [el EXCEPT !.status = "panic"]
       ELSE IF Len(el.path) + 1 > MaxPathLen
       THEN [el EXCEPT !.status = "panic", !.path = Append(@, inst.name)]
       ELSE [el EXCEPT !.vars = w.vars, !.path = w.path,
                       !.stack = Append(@, [ns |-> w.ns, todo |-> modules[inst.ref].comps,
                                            autonode |-> FALSE])]

\* elaborate_instance that pushes no solver for a primitive of a module body
ElabInstanceTopOnly(el) ==
    LET d == Len(el.stack)
        inst == Head(el.stack[d].todo)
        rest == [el EXCEPT !.stack[d].todo = Tail(@), !.resolved = <<>>]
        w == ElabPrimitive(Work(el), inst, el.stack[d].autonode, el.ckt.defs)
    IN IF inst.type = "X" THEN ElabModuleInst(rest, inst)
       ELSE IF w.ok
       THEN [rest EXCEPT !.vars = w.vars, !.stack[d].ns = w.ns, !.resolved = w.resolved,
                         !.path = w.path,
                         !.comps = IF d > 1 THEN @
                                   ELSE Append(@, Solver(inst, el.ckt.defs, w.out))]
       ELSE [rest EXCEPT !.status = "panic", !.vars = w.vars, !.resolved = w.resolved]

\* elaborate_instance on the next component of the innermost body
ElabInstance(el) ==
    LET d == Len(el.stack)
        inst == Head(el.stack[d].todo)
        rest == [el EXCEPT !.stack[d].todo = Tail(@), !.resolved = <<>>]
        w == ElabPrimitive(Work(el), inst, el.stack[d].autonode, el.ckt.defs)
    IN IF inst.type = "X" THEN ElabModuleInst(rest, inst)
       ELSE IF w.ok
       THEN [rest EXCEPT !.vars = w.vars, !.stack[d].ns = w.ns, !.resolved = w.resolved,
                         !.path = w.path,
                         !.comps = Append(@, Solver(inst, el.ckt.defs, w.out))]
       ELSE [rest EXCEPT !.status = "panic", !.vars = w.vars, !.resolved = w.resolved]

\* elaborate, up to its loop over the components
ElabStart(el) ==
    LET w == ElaborateSignals([vars |-> <<>>, ns |-> ("" :> None), path |-> <<>>,
                               ok |-> TRUE, out |-> <<>>, resolved |-> <<>>],
                              el.ckt.signals)
    IN [el EXCEPT !.status = "run", !.vars = w.vars, !.path = w.path,
                  !.stack = <<[ns |-> w.ns, todo |-> el.ckt.comps, autonode |-> TRUE]>>]

----------------------------------------------------------------------------
(* Device configurations *)

\* the resistance options (rd, rs, rsh) of a Mos1 model
NoRes == [rd |-> None, rs |-> None, rsh |-> None]

BothRes == [rd |-> Some(2), rs |-> Some(2), rsh |-> None]

DrainRes == [rd |-> Some(1), rs |-> None, rsh |-> None]

\* a drain resistance given as zero
ZeroRes == [rd |-> Some(0), rs |-> None, rsh |-> None]

\* Mos1Model::resolve : a resolved model in model units
Mos1ModelOf(mos_type, gamma, lambda, res) ==
    [mos_type |-> mos_type, vt0 |-> 0, kp |-> 2, gamma |-> gamma, phi |-> 2,
     lambda |-> lambda, cox_per_area |-> 6, cbd |-> 0, cbs |-> 0, is |-> 2, js |-> 2,
     pb |-> 4, cgso |-> 1, cgdo |-> 1, cgbo |-> 1, cj |-> 8, cjsw |-> 0, ld |-> 0,
     rd |-> res.rd, rs |-> res.rs, rsh |-> res.rsh]

\* the node variables of the four terminals: the terminals in mask are ground,
\* the others get the indices 0, 1, .. in the order d, g, s, b
TermIndex(mask, t) ==
    Cardinality({u \in MosTerm \ mask :
        (u = "D") \/ (u = "G" /\ t # "D") \/ (u = "S" /\ t \in {"S", "B"}) \/ (u = "B" /\ t = "B")}) - 1

Terms(mask) ==
    [d |-> IF "D" \in mask THEN None ELSE Some(TermIndex(mask, "D")),
     g |-> IF "G" \in mask THEN None ELSE Some(TermIndex(mask, "G")),
     s |-> IF "S" \in mask THEN None ELSE Some(TermIndex(mask, "S")),
     b |-> IF "B" \in mask THEN None ELSE Some(TermIndex(mask, "B"))]

\* MosPorts::from
MosPortsFrom(terms) == [D |-> terms.d, G |-> terms.g, S |-> terms.s, B |-> terms.b]

\* bound of the terminal voltages: the iterates are even integers in -2 .. 2 MaxV
MaxV == 1

VoltVals == {2 * k : k \in -1..MaxV}

\* the values tried on the internal nodes D', S'
IntVals == {0, 2}

\* bound of the number of accepted operating points
MaxCommits == 1

\* bound of the angular frequency of an AC analysis
MaxOmega == 1

\* bound of the time step of a TRAN analysis
MaxH == 1

\* no second device
NoTwin == [rel |-> "none", mos1 |-> <<>>, mos0 |-> <<>>, stamps |-> NoStamps]

NoCall ==
    [dev |-> "none", call |-> "none", x |-> <<>>, an |-> AnOp, stamps |-> NoStamps,
     rep |-> FALSE]

\* the record of a call; rep tells that the call before it, with no commit
\* between, was the same call with the same arguments
Call(prev, dev, call, x, an, stamps) ==
    [dev |-> dev, call |-> call, x |-> x, an |-> an, stamps |-> stamps,
     rep |-> (prev.dev = dev /\ prev.call = call /\ prev.x = x /\ prev.an = an)]

\* the circuit of one MOS instance, elaborated to a Mos1 or to a Mos0 solver
InitWith(k, mos_type, gamma, lambda, res, inst, mask) ==
    LET model == Mos1ModelOf(mos_type, gamma, lambda, IF k = "mos1" THEN res ELSE NoRes)
        terms == Terms(mask)
        next == Cardinality(MosTerm \ mask)
    IN /\ kind = k
       /\ mos1 = Mos1New(model, inst, Mos1VarsFrom(terms, model, next), OptionsDefault)
       /\ mos0 = Mos0New(MosPortsFrom(terms), mos_type)
       /\ nvars = NvarsAfter(model, next)
       /\ phase = "new"
       /\ last = NoCall
       /\ lastAc = NoCall
       /\ ncommit = 0
       /\ elab = ElabIdle
       /\ build = NoBuild

\* the variables of the internal nodes of the Mos1
InternalVars == {Unwrap(mos1.ports[t]) : t \in {u \in {"DP", "SP"} : IsSome(mos1.ports[u])}}
                \ {Unwrap(mos1.ports[t]) : t \in {u \in MosTerm : IsSome(mos1.ports[u])}}

\* the iterates: one value per variable
Iterates ==
    {x \in [0..(nvars - 1) -> VoltVals \cup IntVals] :
        \A i \in 0..(nvars - 1) : IF i \in InternalVars THEN x[i] \in IntVals
                                  ELSE x[i] \in VoltVals}

\* the complex iterates handed to load_ac
AcIterates == {[i \in 0..(nvars - 1) |-> 0], [i \in 0..(nvars - 1) |-> 2]}

----------------------------------------------------------------------------
(* The stamp protocol as the analysis drivers run it *)

\* every component reserves its matrix elements, once
CreateMatrixElems ==
    /\ phase = "new"
    /\ phase' = "ready"
    /\ mos1' = (IF kind = "mos1" THEN Mos1CreateMatrixElems(mos1) ELSE mos1)
    /\ mos0' = (IF kind = "mos0" THEN Mos0CreateMatrixElems(mos0) ELSE mos0)
    /\ UNCHANGED <<kind, nvars, last, lastAc, ncommit, twin, elab, build>>

\* Mos1::load at iterate x
Load(x, an) ==
    /\ phase = "ready"
    /\ kind = "mos1"
    /\ LET r == Mos1Load(mos1, x, an, OptionsDefault)
       IN /\ mos1' = r.self
          /\ last' = Call(last, "mos1", "load", x, an, r.ret)
    /\ UNCHANGED <<kind, mos0, nvars, phase, lastAc, ncommit, twin, elab, build>>

\* Mos0::load at iterate x
LoadMos0(x, an) ==
    /\ phase = "ready"
    /\ kind = "mos0"
    /\ last' = Call(last, "mos0", "load", x, an, Mos0Load(mos0, x, OptionsDefault.gmin))
    /\ UNCHANGED <<kind, mos1, mos0, nvars, phase, lastAc, ncommit, twin, elab, build>>

\* Mos1::commit; the stamps of the iteration and of the previous operating
\* point are consumed
CommitUpTo(n) ==
    /\ phase = "ready"
    /\ kind = "mos1"
    /\ ncommit < n
    /\ mos1' = Mos1Commit(mos1)
    /\ ncommit' = ncommit + 1
    /\ last' = NoCall
    /\ lastAc' = NoCall
    /\ UNCHANGED <<kind, mos0, nvars, phase, twin, elab, build>>

Commit == CommitUpTo(MaxCommits)

\* Mos1::load_ac at angular frequency an.omega
LoadAc(x, an) ==
    /\ phase = "ready"
    /\ kind = "mos1"
    /\ LET r == Mos1LoadAc(mos1, x, an, OptionsDefault)
       IN /\ mos1' = r.self
          /\ phase' = (IF r.panic THEN "panic" ELSE phase)
          /\ lastAc' = Call(NoCall, "mos1", IF r.panic THEN "panic" ELSE "load_ac",
                            x, an, r.ret)
    /\ UNCHANGED <<kind, mos0, nvars, last, ncommit, twin, elab, build>>

----------------------------------------------------------------------------
(* Spec: Newton iterations and transient steps on a device with one node   *)
(* variable, its other terminals grounded: loads, commits and AC loads.    *)
(* A transient analysis starts from an accepted DC operating point.        *)

\* the ground masks that leave one terminal on a node variable
OneNodeMasks == {mask \in SUBSET MosTerm : Cardinality(mask) = 3}

Init ==
    \E k \in {"mos0", "mos1"}, mos_type \in MosType, mask \in OneNodeMasks :
        /\ InitWith(k, mos_type, 2, 1, NoRes, Mos1InstanceParamsDefault, mask)
        /\ twin = NoTwin

Next ==
    \/ CreateMatrixElems
    \/ kind = "mos1" /\ \E x \in Iterates : Load(x, AnOp)
    \/ kind = "mos1" /\ ncommit > 0 /\ \E x \in Iterates, h \in 1..MaxH : Load(x, AnTran(h))
    \/ kind = "mos0" /\ \E x \in Iterates : LoadMos0(x, AnOp)
    \/ Commit
    \/ \E x \in AcIterates, w \in 1..MaxOmega : LoadAc(x, AnAc(w))

Spec == Init /\ [][Next]_vars

----------------------------------------------------------------------------
(* Claims on the stamp protocol *)

\* C1: the accepted operating point op is written only by commit, which sets
\* it to the current guess; a load replaces the guess and leaves op, the port
\* variables and the reserved matrix handles unchanged.
C1_OpWrittenOnlyByCommit ==
    [][ /\ (mos1'.op # mos1.op =>
              /\ mos1'.op = mos1.guess
              /\ mos1'.guess = mos1.guess
              /\ ncommit' = ncommit + 1)
        /\ ((mos1'.guess # mos1.guess \/ (last' # last /\ last'.call = "load")) =>
              /\ mos1'.op = mos1.op
              /\ mos1'.ports = mos1.ports
              /\ mos1'.matps = mos1.matps
              /\ ncommit' = ncommit) ]_vars

\* C1 witness: a guess was committed and a later load has replaced the guess
C1_Witness ==
    /\ ncommit > 0
    /\ mos1.op # Mos1OpPointDefault
    /\ last.dev = "mos1" /\ last.call = "load"
    /\ mos1.guess # mos1.op

\* C2: two consecutive load calls on the same device with the same iterate,
\* analysis and options and no commit between them return identical stamps
\* and leave an identical guess.
C2_LoadIdempotent ==
    [][ (last'.rep /\ last'.call = "load") =>
            /\ last'.stamps = last.stamps
            /\ mos1'.guess = mos1.guess ]_vars

\* C2 witness: a transient load was repeated on an accepted operating point
C2_Witness ==
    /\ last.rep /\ last.dev = "mos1" /\ last.call = "load"
    /\ last.an.kind = "TRAN"
    /\ ncommit > 0
    /\ mos1.op.cgs # 0

\* C9: load_ac is small-signal.  Between two commits, every load_ac at the
\* same angular frequency returns the same stamps, whatever the vars argument
\* and whatever guess the loads in between have produced; a load_ac call
\* leaves the device, op and guess included, unchanged.
C9_LoadAcIsSmallSignal ==
    [][ /\ (lastAc.call = "load_ac" /\ lastAc'.call = "load_ac"
               /\ lastAc'.an = lastAc.an) => lastAc'.stamps = lastAc.stamps
        /\ (lastAc' # lastAc /\ lastAc'.call = "load_ac") => mos1' = mos1 ]_vars

\* C9 witness: an AC load at a nonzero vars argument with capacitive entries,
\* on a committed operating point that a later iteration's guess differs from
C9_Witness ==
    /\ lastAc.call = "load_ac" /\ last.call = "load"
    /\ ncommit > 0
    /\ mos1.guess # mos1.op
    /\ \E i \in DOMAIN lastAc.x : lastAc.x[i] # 0
    /\ \E i \in DOMAIN lastAc.stamps.g :
          lastAc.stamps.g[i].h # None /\ lastAc.stamps.g[i].v.im # 0

\* C19: outside TRAN the capacitances are open.  For every iterate and every
\* committed op, a DC load stamps zero at every gate-row position ((G,G),
\* (G,B), (G,D'), (G,S')) and at (B,G), and zero into the gate RHS.
C19_GateOpenInDc ==
    (kind = "mos1" /\ last.call = "load" /\ last.an.kind = "OP") =>
        /\ \A i \in DOMAIN last.stamps.g :
              (last.stamps.g[i].pos[1] = "G" \/ last.stamps.g[i].pos = <<"B", "G">>)
                  => last.stamps.g[i].v = 0
        /\ \A i \in DOMAIN last.stamps.b : last.stamps.b[i].t = "G" => last.stamps.b[i].v = 0
        /\ \A pos \in {<<"G", "G">>, <<"G", "B">>, <<"G", "DP">>, <<"G", "SP">>, <<"B", "G">>} :
              \E i \in DOMAIN last.stamps.g : last.stamps.g[i].pos = pos
        /\ \E i \in DOMAIN last.stamps.b : last.stamps.b[i].t = "G"

C19_Witness ==
    /\ kind = "mos1" /\ last.call = "load" /\ last.an.kind = "OP"
    /\ ncommit > 0 /\ mos1.op.cgs # 0
    /\ mos1.ports["G"] # None
    /\ \E i \in DOMAIN last.stamps.g :
          last.stamps.g[i].pos = <<"G", "G">> /\ last.stamps.g[i].h # None
    /\ \E i \in DOMAIN last.stamps.g : last.stamps.g[i].v # 0

----------------------------------------------------------------------------
(* SpecStamp: one DC load, its commit and the AC loads at the accepted     *)
(* operating point, for every set of grounded terminals, both polarities,  *)
(* with and without body effect and terminal resistances.                  *)

InitStamp ==
    \E k \in {"mos0", "mos1"}, mos_type \in MosType, mask \in SUBSET MosTerm,
       gamma \in {0, 1, 2}, res \in {NoRes, BothRes, DrainRes} :
        /\ k = "mos0" => (gamma = 0 /\ res = NoRes)
        /\ InitWith(k, mos_type, gamma, 1, res, Mos1InstanceParamsDefault, mask)
        /\ twin = NoTwin

NextStamp ==
    \/ CreateMatrixElems
    \/ kind = "mos1" /\ ncommit = 0 /\ last = NoCall /\ \E x \in Iterates : Load(x, AnOp)
    \/ kind = "mos0" /\ last = NoCall /\ \E x \in Iterates : LoadMos0(x, AnOp)
    \/ last.call = "load" /\ Commit
    \/ ncommit > 0 /\ \E x \in AcIterates, w \in 1..MaxOmega : LoadAc(x, AnAc(w))
    \/ ncommit > 0 /\ lastAc = NoCall /\ \E x \in AcIterates : LoadAc(x, AnOp)

SpecStamp == InitStamp /\ [][NextStamp]_vars

\* the device under test: its port variables and its pointer table
DevPorts == IF kind = "mos1" THEN mos1.ports ELSE mos0.ports

DevMatps == IF kind = "mos1" THEN mos1.matps ELSE mos0.matps

\* the entries of the stamps returned by the last load and the last load_ac
GStamps ==
    {last.stamps.g[i] : i \in DOMAIN last.stamps.g}
        \cup {lastAc.stamps.g[i] : i \in DOMAIN lastAc.stamps.g}

BStamps ==
    {last.stamps.b[i] : i \in DOMAIN last.stamps.b}
        \cup {lastAc.stamps.b[i] : i \in DOMAIN lastAc.stamps.b}

\* C3: every matrix handle in a stamp returned by Mos0.load, Mos1.load or
\* Mos1.load_ac is the one create_matrix_elems reserved for the (row, column)
\* terminals of the entry, and every variable index in the b vector is one of
\* the device's own port variables.
C3_StampsUseReservedHandles ==
    /\ \A e \in GStamps :
          /\ e.h = MakeMatrixElem(DevPorts[e.pos[1]], DevPorts[e.pos[2]])
          /\ e.h \in {DevMatps[q] : q \in DOMAIN DevMatps}
    /\ \A e \in BStamps : e.var \in {DevPorts[t] : t \in DOMAIN DevPorts}

C3_Witness ==
    /\ kind = "mos1" /\ lastAc.call = "load_ac" /\ mos1.op.reversed
    /\ mos1.ports["DP"] # mos1.ports["D"]
    /\ \E e \in GStamps : e.h # None /\ e.pos = <<"SP", "G">> /\ e.v # Complex(0, 0)

\* C4: every stamp entry whose row or column terminal is ground carries the
\* none handle, and every RHS entry of a grounded terminal carries the none
\* variable index.
C4_GroundCarriesNone ==
    /\ \A e \in GStamps :
          (DevPorts[e.pos[1]] = None \/ DevPorts[e.pos[2]] = None) => e.h = None
    /\ \A e \in BStamps : DevPorts[e.t] = None => e.var = None

C4_Witness ==
    /\ last.call = "load"
    /\ \E e \in GStamps : e.h = None /\ e.v # 0
    /\ \E e \in GStamps : e.h # None /\ e.v # 0
    /\ \E e \in BStamps : e.var = None /\ e.v # 0

\* the total a stamp vector adds to the matrix element of handle h
GTotal(g, h) == SeqSum([i \in DOMAIN g |-> IF g[i].h = h THEN g[i].v ELSE 0])

\* the total a stamp vector adds to the RHS row of variable var
BTotal(b, var) == SeqSum([i \in DOMAIN b |-> IF b[i].var = var THEN b[i].v ELSE 0])

\* row r of J.x : the stamped matrix entries of row r times the iterate x
JTimesX(g, x, r) ==
    SeqSum([i \in DOMAIN g |->
               IF g[i].h # None /\ g[i].h[1] = r THEN g[i].v * x[g[i].h[2]] ELSE 0])

\* the voltages at the intrinsic transistor: channel and junctions sit
\* between D', G, S' and B
IntrinsicVs(m, x) ==
    LET v == Vs(m, x) IN [v EXCEPT !["D"] = v["DP"], !["S"] = v["SP"]]

\* the current that flows from the node of terminal t into the Mos1 device at
\* iterate x: channel current and junction-diode currents at the intrinsic
\* terminals, the terminal resistances between D, D' and S, S'
Mos1TerminalCurrent(m, x, t) ==
    LET v == Vs(m, x)
        e == OpVoltages(m, IntrinsicVs(m, x))
        ch == OpChannel(m, e)
        j == OpJunctions(m, e, OptionsDefault.gmin)
        dr == IF ~e.reversed THEN "DP" ELSE "SP"
        ird == m.intparams.grd * (v["D"] - v["DP"])
        irs == m.intparams.grs * (v["S"] - v["SP"])
        intr == IF t = dr THEN e.p * (ch.ids - j.ibd) ELSE e.p * (-ch.ids - j.ibs)
    IN CASE t = "D" -> ird
         [] t = "S" -> irs
         [] t = "G" -> 0
         [] t = "B" -> e.p * (j.ibs + j.ibd)
         [] t = "DP" -> intr - ird
         [] t = "SP" -> intr - irs

\* the same for Mos0: the channel current and the gmin branch, drain to source
Mos0TerminalCurrent(m, x, t) ==
    LET e == Mos0Eval(m, x)
        p == P(m.params.mos_type)
        vds == VarsGet(x, m.ports["D"]) - VarsGet(x, m.ports["S"])
        id == (IF e.reversed THEN -1 ELSE 1) * p * e.ids + OptionsDefault.gmin * vds
    IN CASE t = "D" -> id
         [] t = "S" -> -id
         [] OTHER -> 0

\* the device current that leaves the node of variable r
DeviceCurrent(r) ==
    IF kind = "mos1"
    THEN SeqSum([i \in 1..6 |->
            LET t == <<"D", "G", "S", "B", "DP", "SP">>[i]
            IN IF mos1.ports[t] = Some(r)
               THEN Mos1TerminalCurrent(mos1, last.x, t) ELSE 0])
    ELSE SeqSum([i \in 1..4 |->
            LET t == <<"D", "G", "S", "B">>[i]
            IN IF mos0.ports[t] = Some(r) THEN Mos0TerminalCurrent(mos0, last.x, t) ELSE 0])

\* C8: the DC load stamps follow b = J.x - F(x): on every node of the device,
\* row r of J.x minus the RHS total of row r is the current the device draws
\* from that node at x (channel plus junction diodes; Mos0 with its gmin
\* branch), for every model and every iterate.
C8_LoadIsNewtonLinearization ==
    (last.call = "load" /\ last.an = AnOp) =>
        \A r \in 0..(nvars - 1) :
            JTimesX(last.stamps.g, last.x, r) - BTotal(last.stamps.b, Some(r))
                = DeviceCurrent(r)

\* the real and the imaginary totals an AC stamp vector adds at handle h
ReTotal(g, h) == SeqSum([i \in DOMAIN g |-> IF g[i].h = h THEN g[i].v.re ELSE 0])

ImTotal(g, h) == SeqSum([i \in DOMAIN g |-> IF g[i].h = h THEN g[i].v.im ELSE 0])

\* the conductance stamps Mos1::op_stamp makes of the values of the committed
\* operating point, in DC (no transient companion conductances)
DcStampsOfOp ==
    LET op == mos1.op
    IN OpStampOut(mos1,
                  [p |-> P(mos1.model.mos_type), reversed |-> op.reversed,
                   vgs |-> op.vgs, vgd |-> op.vgd, vds |-> op.vds, vgb |-> op.vgb,
                   vsb |-> op.vsb, vdb |-> op.vdb],
                  [ids |-> op.ids, gm |-> op.gm, gds |-> op.gds, gmbs |-> op.gmbs],
                  [gbs |-> op.gbs, gbd |-> op.gbd, ibs_rhs |-> 0, ibd_rhs |-> 0],
                  [cgs1 |-> op.cgs, cgd1 |-> op.cgd, cgb1 |-> op.cgb],
                  op.cbs, op.cbd, Mos1TranStateDefault).stamps.g

\* the five branch capacitors of the committed operating point, each between
\* two terminals: gate to source', drain' and bulk, bulk to source' and drain'
BranchCaps ==
    LET op == mos1.op
        sr == IF ~op.reversed THEN "SP" ELSE "DP"
        dr == IF ~op.reversed THEN "DP" ELSE "SP"
    IN << [a |-> "G", b |-> sr, c |-> op.cgs],
          [a |-> "G", b |-> dr, c |-> op.cgd],
          [a |-> "G", b |-> "B", c |-> op.cgb],
          [a |-> "B", b |-> sr, c |-> op.cbs],
          [a |-> "B", b |-> dr, c |-> op.cbd] >>

\* entry (r, c) of the nodal capacitance matrix of the branch capacitors
CapMatrix(r, c) ==
    SeqSum([i \in DOMAIN BranchCaps |->
        LET k == BranchCaps[i]
            va == mos1.ports[k.a]
            vb == mos1.ports[k.b]
        IN (IF va = Some(r) /\ va = Some(c) THEN k.c ELSE 0)
           + (IF vb = Some(r) /\ vb = Some(c) THEN k.c ELSE 0)
           - (IF va = Some(r) /\ vb = Some(c) THEN k.c ELSE 0)
           - (IF vb = Some(r) /\ va = Some(c) THEN k.c ELSE 0)])

\* C10: at every matrix position the load_ac stamps total, in their real
\* part, the DC conductance stamp of load for the committed op and, in their
\* imaginary part, omega times the nodal capacitance matrix of the five
\* branch capacitors C_gs, C_gd, C_gb, C_bs and C_bd.
C10_AcStampIsDcPlusOmegaC ==
    lastAc.call = "load_ac" =>
        \A r \in 0..(nvars - 1), c \in 0..(nvars - 1) :
            /\ ReTotal(lastAc.stamps.g, <<r, c>>) = GTotal(DcStampsOfOp, <<r, c>>)
            /\ ImTotal(lastAc.stamps.g, <<r, c>>) = lastAc.an.omega * CapMatrix(r, c)

\* C14: no stamp-protocol operation of Mos1 (load, load_ac, commit) fails,
\* whatever its input.
C14_NoOperationFails == phase # "panic"

\* C16: in every Mos1 load and load_ac result, reversed or not, g_rd is
\* stamped between D and D' (+g_rd at (D,D) and, next to the intrinsic drain
\* conductances, at (D',D'); -g_rd at (D,D') and (D',D)) and g_rs between S
\* and S'.
C16_TerminalResistanceAtItsTerminal ==
    \A c \in {last, lastAc} :
        (kind = "mos1" /\ c.call \in {"load", "load_ac"}) =>
            LET ac == c.call = "load_ac"
                o == IF ac THEN mos1.op ELSE mos1.guess
                Tot(h) == IF ac THEN ReTotal(c.stamps.g, h) ELSE GTotal(c.stamps.g, h)
                \* the intrinsic conductances at the diagonal of D' and of S'
                atDrain == IF o.reversed THEN o.gm + o.gds + o.gmbs + o.gbs
                                         ELSE o.gds + o.gbd
                atSource == IF o.reversed THEN o.gds + o.gbd
                                          ELSE o.gm + o.gds + o.gmbs + o.gbs
                Between(x, xp, gr, intrinsic) ==
                    (mos1.ports[x] # None /\ mos1.ports[xp] # mos1.ports[x]) =>
                        LET e == mos1.ports[x][1]
                            i == mos1.ports[xp][1]
                        IN /\ Tot(<<e, e>>) = gr
                           /\ Tot(<<e, i>>) = -gr
                           /\ Tot(<<i, e>>) = -gr
                           /\ Tot(<<i, i>>) = gr + intrinsic
            IN /\ Between("D", "DP", mos1.intparams.grd, atDrain)
               /\ Between("S", "SP", mos1.intparams.grs, atSource)

\* C22: the channel evaluation of every Mos1 and Mos0 load equals the
\* piecewise reference: V_on = V_T0 + gamma (sqrt(phi + V_sb) - sqrt(phi)) for
\* V_sb > 0, V_T0 otherwise; cut-off, saturation and triode values of ids, gm,
\* gds; gmbs = gm gamma / (2 sqrt(phi + V_sb)); and the saturation and triode
\* expressions agree at V_ds = V_ov.
C22_ChannelIsPiecewiseReference ==
    LET Sat(beta, lam, vov, vds) ==
            [ids |-> Div(beta, 2) * vov * vov * (1 + lam * vds),
             gm |-> beta * vov * (1 + lam * vds),
             gds |-> Div(lam * beta, 2) * vov * vov]
        Triode(beta, lam, vov, vds) ==
            [ids |-> beta * (vov * vds - Div(vds * vds, 2)) * (1 + lam * vds),
             gm |-> beta * vds * (1 + lam * vds),
             gds |-> beta * ((vov - vds) * (1 + lam * vds)
                              + lam * (vov * vds - Div(vds * vds, 2)))]
        Ref(beta, lam, vov, vds) ==
            IF vov <= 0 THEN [ids |-> 0, gm |-> 0, gds |-> 0]
            ELSE IF vds >= vov THEN Sat(beta, lam, vov, vds)
            ELSE Triode(beta, lam, vov, vds)
        Boundary(beta, lam, vov, vds) ==
            (vov > 0 /\ vds = vov) => Sat(beta, lam, vov, vds) = Triode(beta, lam, vov, vds)
    IN /\ (kind = "mos1" /\ last.call = "load") =>
            LET o == mos1.guess
                gamma == mos1.model.gamma
                phi == mos1.intparams.phi_t
                von == IF o.vsb > 0
                       THEN mos1.intparams.vt0_t + gamma * (Sqrt(phi + o.vsb) - Sqrt(phi))
                       ELSE mos1.intparams.vt0_t
                vov == o.vgs - von
                r == Ref(mos1.intparams.beta, mos1.model.lambda, vov, o.vds)
            IN /\ o.ids = r.ids /\ o.gm = r.gm /\ o.gds = r.gds
               /\ o.gmbs = IF vov > 0 /\ phi + o.vsb > 0
                            THEN Div(Div(r.gm * gamma, 2), Sqrt(phi + o.vsb)) ELSE 0
               /\ Boundary(mos1.intparams.beta, mos1.model.lambda, vov, o.vds)
       /\ (kind = "mos0" /\ last.call = "load") =>
            LET p == IF mos0.params.mos_type = "NMOS" THEN 1 ELSE -1
                vg == VarsGet(last.x, mos0.ports["G"])
                vd == VarsGet(last.x, mos0.ports["D"])
                vs == VarsGet(last.x, mos0.ports["S"])
                rev == p * (vd - vs) < 0
                dr == IF rev THEN "S" ELSE "D"
                sr == IF rev THEN "D" ELSE "S"
                vgs == IF rev THEN p * (vg - vd) ELSE p * (vg - vs)
                vds == IF rev THEN p * (vs - vd) ELSE p * (vd - vs)
                vov == vgs - mos0.params.vth
                r == Ref(mos0.params.beta, mos0.params.lam, vov, vds)
                g == last.stamps.g
                b == last.stamps.b
            IN /\ \E i \in DOMAIN g : g[i].pos = <<dr, "G">> /\ g[i].v = r.gm
               /\ \E i \in DOMAIN g : g[i].pos = <<dr, dr>> /\ g[i].v = r.gds + OptionsDefault.gmin
               /\ \E i \in DOMAIN b :
                     b[i].t = sr /\ b[i].v = p * (r.ids - r.gm * vgs - r.gds * vds)
               /\ Boundary(mos0.params.beta, mos0.params.lam, vov, vds)

\* C22 witness: a conducting Mos1 load on the saturation/triode boundary
\* V_ds = V_ov
C22_Witness ==
    /\ kind = "mos1" /\ last.call = "load"
    /\ mos1.model.gamma # 0
    /\ mos1.guess.ids # 0 /\ mos1.guess.gm # 0 /\ mos1.guess.gds # 0
    /\ mos1.guess.vds = mos1.guess.vgs - Von(mos1, mos1.guess.vsb)

\* C23: in every Mos0 and Mos1 load, reversed is true exactly when
\* p (V_D - V_S) < 0; the evaluated V_ds and the channel current ids are then
\* never negative, and the drain-like stamps go to the source-side node, the
\* source-like stamps to the drain-side node.
C23_ReversedIffNegativeVds ==
    /\ (kind = "mos1" /\ last.call = "load") =>
          LET o == mos1.guess
              v == Vs(mos1, last.x)
              p == IF mos1.model.mos_type = "NMOS" THEN 1 ELSE -1
              dr == IF o.reversed THEN "SP" ELSE "DP"
              sr == IF o.reversed THEN "DP" ELSE "SP"
              g == last.stamps.g
          IN /\ o.reversed <=> (p * (v["D"] - v["S"]) < 0)
             /\ o.vds >= 0 /\ o.ids >= 0
             /\ o.vds = (IF p * (v["D"] - v["S"]) < 0 THEN -1 ELSE 1) * p * (v["D"] - v["S"])
             /\ \E i \in DOMAIN g : g[i].pos = <<dr, "G">> /\ g[i].v = o.gm - o.tr.gd.g
             /\ \E i \in DOMAIN g : g[i].pos = <<sr, "G">> /\ g[i].v = -o.gm - o.tr.gs.g
             /\ \E i \in DOMAIN g : g[i].pos = <<dr, sr>> /\ g[i].v = -o.gm - o.gds - o.gmbs
    /\ (kind = "mos0" /\ last.call = "load") =>
          LET e == Mos0Eval(mos0, last.x)
              p == IF mos0.params.mos_type = "NMOS" THEN 1 ELSE -1
              vd == VarsGet(last.x, mos0.ports["D"])
              vs == VarsGet(last.x, mos0.ports["S"])
              dr == IF e.reversed THEN "S" ELSE "D"
              sr == IF e.reversed THEN "D" ELSE "S"
              g == last.stamps.g
          IN /\ e.reversed <=> (p * (vd - vs) < 0)
             /\ e.vds >= 0 /\ e.ids >= 0
             /\ \E i \in DOMAIN g : g[i].pos = <<dr, "G">> /\ g[i].v = e.gm
             /\ \E i \in DOMAIN g : g[i].pos = <<sr, "G">> /\ g[i].v = -e.gm

C23_Witness ==
    /\ kind = "mos1" /\ last.call = "load"
    /\ mos1.guess.reversed /\ mos1.guess.vds > 0 /\ mos1.guess.ids > 0
    /\ mos1.ports["S"] # None /\ mos1.ports["G"] # None
    /\ \E i \in DOMAIN last.stamps.g :
          /\ last.stamps.g[i].pos = <<"SP", "G">>
          /\ last.stamps.g[i].v = mos1.guess.gm /\ last.stamps.g[i].v > 0

----------------------------------------------------------------------------
(* SpecPair: two netlists of one MOS instance each, loaded side by side.   *)
(* The second device has its D and S ports exchanged ("swap") or is the    *)
(* device of the other polarity ("polarity").                              *)

\* the port connections with the variables of D and S exchanged
SwapTerms(terms) == [d |-> terms.s, g |-> terms.g, s |-> terms.d, b |-> terms.b]

\* the other polarity
OtherType(mos_type) == IF mos_type = "NMOS" THEN "PMOS" ELSE "NMOS"

\* the second netlist elaborated
TwinOf(rel, mos_type, gamma, lambda, res, inst, mask) ==
    LET ty == IF rel = "polarity" THEN OtherType(mos_type) ELSE mos_type
        terms == IF rel = "swap" THEN SwapTerms(Terms(mask)) ELSE Terms(mask)
        model == Mos1ModelOf(ty, gamma, lambda, res)
    IN [rel |-> rel,
        mos1 |-> Mos1New(model, inst,
                         Mos1VarsFrom(terms, model, Cardinality(MosTerm \ mask)),
                         OptionsDefault),
        mos0 |-> Mos0New(MosPortsFrom(terms), ty),
        stamps |-> NoStamps]

\* the variable of the second netlist that stands for variable i of the first:
\* with D and S exchanged, the internal node next to a terminal is the S' of
\* one device and the D' of the other
TwinVar(i) ==
    IF twin.rel = "swap" /\ kind = "mos1"
    THEN IF Some(i) = mos1.ports["DP"] /\ mos1.ports["DP"] # mos1.ports["D"]
         THEN Unwrap(twin.mos1.ports["SP"])
         ELSE IF Some(i) = mos1.ports["SP"] /\ mos1.ports["SP"] # mos1.ports["S"]
         THEN Unwrap(twin.mos1.ports["DP"])
         ELSE i
    ELSE i

\* the iterate of the second netlist: the same node voltages for "swap", the
\* negated node voltages for "polarity"
TwinX(x) ==
    [j \in DOMAIN x |->
        IF twin.rel = "polarity" THEN -x[j]
        ELSE x[CHOOSE i \in DOMAIN x : TwinVar(i) = j]]

InitPair ==
    \E k \in {"mos0", "mos1"}, mos_type \in MosType, mask \in SUBSET MosTerm,
       gamma \in {0, 1, 2}, res \in {NoRes, BothRes}, rel \in {"swap", "polarity"} :
        /\ k = "mos0" => (gamma = 0 /\ res = NoRes)
        /\ InitWith(k, mos_type, gamma, 1, res, Mos1InstanceParamsDefault, mask)
        /\ twin = TwinOf(rel, mos_type, gamma, 1, IF k = "mos1" THEN res ELSE NoRes,
                         Mos1InstanceParamsDefault, mask)

\* both netlists reserve their matrix elements
CreateMatrixElemsPair ==
    /\ phase = "new"
    /\ phase' = "ready"
    /\ mos1' = (IF kind = "mos1" THEN Mos1CreateMatrixElems(mos1) ELSE mos1)
    /\ mos0' = (IF kind = "mos0" THEN Mos0CreateMatrixElems(mos0) ELSE mos0)
    /\ twin' = (IF kind = "mos1"
                THEN [twin EXCEPT !.mos1 = Mos1CreateMatrixElems(twin.mos1)]
                ELSE [twin EXCEPT !.mos0 = Mos0CreateMatrixElems(twin.mos0)])
    /\ UNCHANGED <<kind, nvars, last, lastAc, ncommit, elab, build>>

\* Mos1::load in both netlists, at corresponding iterates
LoadPair(x, an) ==
    /\ phase = "ready"
    /\ kind = "mos1"
    /\ \E r \in {Mos1Load(mos1, x, an, OptionsDefault)},
          rt \in {Mos1Load(twin.mos1, TwinX(x), an, OptionsDefault)} :
          /\ mos1' = r.self
          /\ last' = Call(last, "mos1", "load", x, an, r.ret)
          /\ twin' = [twin EXCEPT !.mos1 = rt.self, !.stamps = rt.ret]
    /\ UNCHANGED <<kind, mos0, nvars, phase, lastAc, ncommit, elab, build>>

\* Mos0::load in both netlists, at corresponding iterates
LoadPairMos0(x, an) ==
    /\ phase = "ready"
    /\ kind = "mos0"
    /\ last' = Call(last, "mos0", "load", x, an, Mos0Load(mos0, x, OptionsDefault.gmin))
    /\ twin' = [twin EXCEPT !.stamps = Mos0Load(twin.mos0, TwinX(x), OptionsDefault.gmin)]
    /\ UNCHANGED <<kind, mos1, mos0, nvars, phase, lastAc, ncommit, elab, build>>

NextPair ==
    \/ CreateMatrixElemsPair
    \/ kind = "mos1" /\ last = NoCall /\ \E x \in Iterates : LoadPair(x, AnOp)
    \/ kind = "mos0" /\ last = NoCall /\ \E x \in Iterates : LoadPairMos0(x, AnOp)

SpecPair == InitPair /\ [][NextPair]_vars

\* C6: with the variables of D and S exchanged, the load stamps add the same
\* values to the same matrix positions and RHS rows, and the channel current
\* has the same magnitude (Mos0; Mos1 in DC with equal source and drain
\* junction and resistance parameters).
C6_SwapKeepsEquations ==
    (twin.rel = "swap" /\ last.call = "load") =>
        /\ \A r \in 0..(nvars - 1), c \in 0..(nvars - 1) :
              GTotal(twin.stamps.g, MakeMatrixElem(Some(TwinVar(r)), Some(TwinVar(c))))
                  = GTotal(last.stamps.g, MakeMatrixElem(Some(r), Some(c)))
        /\ \A r \in 0..(nvars - 1) :
              BTotal(twin.stamps.b, Some(TwinVar(r))) = BTotal(last.stamps.b, Some(r))
        /\ kind = "mos1" => twin.mos1.guess.ids = mos1.guess.ids

C6_Witness ==
    /\ twin.rel = "swap" /\ last.call = "load" /\ kind = "mos1"
    /\ mos1.guess.ids > 0 /\ mos1.guess.gmbs > 0
    /\ mos1.guess.reversed /\ ~twin.mos1.guess.reversed
    /\ mos1.ports["DP"] # mos1.ports["D"]
    /\ mos1.ports["D"] # None /\ mos1.ports["S"] # None

\* C7: the device of the other polarity, loaded at the negated terminal
\* voltages, returns the same conductance stamps and the negated RHS entries.
C7_PolarityIsSignSymmetry ==
    (twin.rel = "polarity" /\ last.call = "load") =>
        /\ twin.stamps.g = last.stamps.g
        /\ DOMAIN twin.stamps.b = DOMAIN last.stamps.b
        /\ \A i \in DOMAIN last.stamps.b :
              /\ twin.stamps.b[i].var = last.stamps.b[i].var
              /\ twin.stamps.b[i].v = -last.stamps.b[i].v

C7_Witness ==
    /\ twin.rel = "polarity" /\ last.call = "load" /\ kind = "mos1"
    /\ mos1.model.mos_type = "NMOS" /\ twin.mos1.model.mos_type = "PMOS"
    /\ mos1.guess.ids > 0
    /\ \E i \in DOMAIN last.stamps.b : last.stamps.b[i].var # None /\ last.stamps.b[i].v # 0

----------------------------------------------------------------------------
(* SpecElab: the elaboration of a circuit, one elaborate_instance call at  *)
(* a time.  A panic ends the elaboration.                                  *)

\* bound of the number of top-level components of a circuit
MaxComps == 2

\* the bodies tried for module m (ports p, q; signal i) and module n (ports p, q)
BodiesM ==
    { << Comp("R", "r1", <<Name("p"), Name("q")>>, "", "", <<>>) >>,
      << Comp("R", "r1", <<Name("p"), Gnd>>, "", "", <<>>) >>,
      << Comp("R", "r1", <<Name("p"), Name("z")>>, "", "", <<>>) >>,
      << Comp("C", "c1", <<Name("p"), Name("i")>>, "", "", <<>>),
         Comp("X", "xn", <<>>, "n", "", << <<"p", "i">>, <<"q", "q">> >>) >> }

BodiesN ==
    { << Comp("R", "r2", <<Name("p"), Name("q")>>, "", "", <<>>) >>,
      << Comp("C", "c2", <<Name("p"), Gnd>>, "", "", <<>>) >> }

\* the signal declarations tried for module m: its internal signal i, and
\* with it a signal named as its port p
SignalsM == {<<"i">>, <<"i", "p">>}

\* circuit::Defs
Defs(bm, bn, sm) ==
    [modules |-> [k \in {"m", "n"} |->
                    IF k = "m" THEN [signals |-> sm, comps |-> bm]
                    ELSE [signals |-> <<>>, comps |-> bn]],
     mos0 |-> [k \in {"nmos"} |-> "NMOS"],
     mos1 |-> {"nm1"},
     mos1insts |-> {"default"}]

\* the top-level instances tried
TopInsts ==
    { Comp("R", "r0", <<Name("a"), Gnd>>, "", "", <<>>),
      Comp("C", "c0", <<Name("a"), Name("b")>>, "", "", <<>>),
      Comp("V", "v1", <<Name("b"), Gnd>>, "", "", <<>>),
      Comp("D", "d1", <<Name("a"), Gnd>>, "", "rs", <<>>),
      Comp("D", "d2", <<Name("b"), Name("a")>>, "", "", <<>>),
      Comp("Mos", "m1", <<Name("a"), Name("b"), Gnd, Gnd>>, "nmos", "", <<>>),
      Comp("Mos", "m2", <<Name("a"), Name("b"), Gnd, Gnd>>, "nm1", "default", <<>>),
      Comp("Mos", "m3", <<Name("a"), Name("b"), Gnd, Gnd>>, "nm1", "undefined", <<>>),
      Comp("Mos", "m4", <<Name("a"), Name("b"), Gnd, Gnd>>, "undefined", "", <<>>),
      Comp("X", "x1", <<>>, "m", "", << <<"p", "a">>, <<"q", "">> >>),
      Comp("X", "x2", <<>>, "undefined", "", << <<"p", "a">>, <<"q", "">> >>),
      Comp("X", "x3", <<>>, "m", "", << <<"p", "a">>, <<"q", "c">> >>) }

\* circuits whose module definitions instantiate themselves: m directly, and
\* m through n
LoopCkts ==
    {[signals |-> <<"a">>,
      comps |-> << Comp("X", "x1", <<>>, "m", "", << <<"p", "a">>, <<"q", "">> >>) >>,
      defs |-> Defs(bm, bn, <<>>)] :
        bm \in { << Comp("X", "xm", <<>>, "m", "", << <<"p", "p">>, <<"q", "q">> >>) >>,
                 << Comp("X", "xn", <<>>, "n", "", << <<"p", "p">>, <<"q", "q">> >>) >> },
        bn \in { << Comp("R", "r2", <<Name("p"), Name("q")>>, "", "", <<>>),
                    Comp("X", "xm", <<>>, "m", "", << <<"p", "p">>, <<"q", "q">> >>) >> }}

\* circuit::Ckt
Ckts ==
    {[signals |-> sg, comps |-> cs, defs |-> Defs(bm, bn, sm)] :
        sg \in {<<>>, <<"a">>},
        cs \in UNION {[1..k -> TopInsts] : k \in 1..MaxComps},
        bm \in BodiesM, bn \in BodiesN, sm \in SignalsM}
    \cup LoopCkts

InitElab ==
    /\ \E ckt \in Ckts : elab = [ElabIdle EXCEPT !.ckt = ckt]
    /\ kind = "none" /\ mos1 = <<>> /\ mos0 = <<>> /\ nvars = 0 /\ phase = "new"
    /\ last = NoCall /\ lastAc = NoCall /\ ncommit = 0 /\ twin = NoTwin
    /\ build = NoBuild

\* elaborate is called on the circuit
Elaborate ==
    /\ elab.status = "idle"
    /\ elab' = ElabStart(elab)
    /\ UNCHANGED <<kind, mos1, mos0, nvars, phase, last, lastAc, ncommit, twin, build>>

\* the next component of the body being elaborated
ElaborateInstance ==
    /\ elab.status = "run"
    /\ elab.stack[Len(elab.stack)].todo # <<>>
    /\ elab' = ElabInstance(elab)
    /\ UNCHANGED <<kind, mos1, mos0, nvars, phase, last, lastAc, ncommit, twin, build>>

\* elaborate_module returns to elaborate_module_inst, which pops the path
ElaborateModuleReturn ==
    /\ elab.status = "run"
    /\ Len(elab.stack) > 1
    /\ elab.stack[Len(elab.stack)].todo = <<>>
    /\ elab' = [elab EXCEPT !.stack = SubSeq(@, 1, Len(@) - 1),
                            !.path = Pop(@),
                            !.resolved = <<>>]
    /\ UNCHANGED <<kind, mos1, mos0, nvars, phase, last, lastAc, ncommit, twin, build>>

\* elaborate returns the Elaborator
ElaborateReturn ==
    /\ elab.status = "run"
    /\ Len(elab.stack) = 1
    /\ elab.stack[1].todo = <<>>
    /\ elab' = [elab EXCEPT !.status = "done", !.resolved = <<>>]
    /\ UNCHANGED <<kind, mos1, mos0, nvars, phase, last, lastAc, ncommit, twin, build>>

NextElab ==
    \/ Elaborate
    \/ ElaborateInstance
    \/ ElaborateModuleReturn
    \/ ElaborateReturn

SpecElab == InitElab /\ [][NextElab]_vars

\* C5: resolving the ground node yields none and creates no variable, at the
\* top level and inside the body of a module instance at any depth.
C5_GroundResolvesToNone ==
    \A i \in DOMAIN elab.resolved :
        elab.resolved[i].node = Gnd =>
            /\ elab.resolved[i].res = "ok"
            /\ elab.resolved[i].var = None
            /\ elab.resolved[i].made = 0

\* the part of C5 the code keeps: ground resolved at the top level
C5_TopLevelGround ==
    \A i \in DOMAIN elab.resolved :
        (elab.resolved[i].node = Gnd /\ elab.resolved[i].depth = 0) =>
            /\ elab.resolved[i].res = "ok"
            /\ elab.resolved[i].var = None
            /\ elab.resolved[i].made = 0

\* the primitive instances of a component list, every module instance
\* replaced by the primitives of its recursively expanded definition
RECURSIVE Primitives(_, _)
Primitives(comps, defs) ==
    IF comps = <<>> THEN <<>>
    ELSE LET inst == Head(comps)
         IN (IF inst.type = "X"
             THEN Primitives(defs.modules[inst.ref].comps, defs)
             ELSE <<inst>>) \o Primitives(Tail(comps), defs)

\* C17: a finished elaboration holds exactly one component solver per
\* primitive instance of the flattened hierarchy, in expansion order: module
\* instances add no solver, no primitive is dropped or duplicated.
C17_OneSolverPerPrimitive ==
    elab.status = "done" =>
        LET prims == Primitives(elab.ckt.comps, elab.ckt.defs)
        IN /\ Len(elab.comps) = Len(prims)
           /\ \A i \in DOMAIN prims :
                 elab.comps[i].type = Solver(prims[i], elab.ckt.defs, <<>>).type

C17_Witness ==
    /\ elab.status = "done"
    /\ elab.ckt.comps[1].type = "X"
    /\ elab.ckt.comps[Len(elab.ckt.comps)].type = "Mos"
    /\ Len(elab.comps) = 3
    /\ elab.comps[1].type = "C" /\ elab.comps[2].type = "R" /\ elab.comps[3].type = "Mos0"

\* s is a prefix of t : every index of s holds in t what it held in s
IsPrefix(s, t) == Len(s) <= Len(t) /\ SubSeq(t, 1, Len(s)) = s

\* the node variables a top-level primitive adds to a registry in which the
\* names of seen exist: its nodes in terminal order, ground and the nodes
\* already seen left out
RECURSIVE NewNodes(_, _)
NewNodes(nodes, seen) ==
    IF nodes = <<>> THEN <<>>
    ELSE IF Head(nodes) = Gnd \/ S(Head(nodes)) \in seen
    THEN NewNodes(Tail(nodes), seen)
    ELSE <<[kind |-> "V", name |-> S(Head(nodes))]>>
            \o NewNodes(Tail(nodes), seen \cup {S(Head(nodes))})

\* C18: variable indices follow first-creation order and never change: the
\* declared top-level signals come first in declaration order; each top-level
\* primitive then appends its not-yet-seen nodes in terminal order (p, n; d,
\* g, s, b), a voltage source its branch current before them (and a diode
\* with a series resistance its internal node after them); an existing
\* variable keeps its index.
C18_IndicesFollowCreationOrder ==
    [][ /\ IsPrefix(elab.vars, elab'.vars)
        /\ (elab.status = "idle" /\ elab'.status = "run") =>
              elab'.vars = [i \in DOMAIN elab.ckt.signals |->
                               [kind |-> "V", name |-> elab.ckt.signals[i]]]
        /\ (elab.status = "run" /\ elab'.status = "run" /\ Len(elab.stack) = 1
               /\ elab.stack[1].todo # <<>> /\ Head(elab.stack[1].todo).type # "X") =>
              LET inst == Head(elab.stack[1].todo)
                  branch == IF inst.type = "V"
                            THEN <<[kind |-> "I", name |-> inst.name]>> ELSE <<>>
                  seen == {elab.vars[i].name : i \in DOMAIN elab.vars}
                             \cup {branch[i].name : i \in DOMAIN branch}
                  ports == elab'.comps[Len(elab'.comps)].ports
                  nodeports == IF inst.type = "V" THEN Tail(ports) ELSE ports
                  internal == IF inst.type = "D" /\ inst.params = "rs"
                              THEN <<[kind |-> "V", name |-> inst.name]>> ELSE <<>>
              IN /\ elab'.vars = elab.vars \o branch \o NewNodes(inst.nodes, seen) \o internal
                 /\ inst.type = "V" => ports[1] = Some(Len(elab.vars))
                 /\ \A k \in DOMAIN inst.nodes :
                       IF inst.nodes[k] = Gnd THEN nodeports[k] = None
                       ELSE /\ nodeports[k] # None
                            /\ elab'.vars[nodeports[k][1] + 1].name = S(inst.nodes[k])
      ]_vars

C18_Witness ==
    /\ elab.status = "run"
    /\ elab.ckt.signals = <<"a">>
    /\ Len(elab.comps) = 1 /\ elab.comps[1].type = "V"
    /\ Len(elab.vars) = 3
    /\ elab.vars[1].name = "a" /\ elab.vars[2].kind = "I" /\ elab.vars[3].name = "b"
    /\ elab.comps[1].ports = <<Some(1), Some(2), None>>

\* C25: elaboration fails whenever the instance it elaborates holds an
\* unresolved reference: a port connection naming a signal absent from the
\* enclosing namespace, a node name of a module body that is neither a port
\* nor a declared signal, an undefined module, an undefined MOS model, or
\* undefined Mos1 instance parameters.  No solver is pushed for it.
C25_UnresolvedReferenceFails ==
    [][ (elab.status = "run" /\ elab.stack[Len(elab.stack)].todo # <<>>) =>
          LET frame == elab.stack[Len(elab.stack)]
              inst == Head(frame.todo)
              defs == elab.ckt.defs
              unresolved ==
                  \/ /\ inst.type = "X"
                     /\ \/ inst.ref \notin DOMAIN defs.modules
                        \/ \E i \in DOMAIN inst.ports : inst.ports[i][2] \notin DOMAIN frame.ns
                  \/ /\ inst.type # "X" /\ ~frame.autonode
                     /\ \E k \in DOMAIN inst.nodes :
                           inst.nodes[k].tag = "Name" /\ inst.nodes[k].name \notin DOMAIN frame.ns
                  \/ /\ inst.type = "Mos"
                     /\ \/ inst.ref \notin defs.mos1 \cup DOMAIN defs.mos0
                        \/ inst.ref \in defs.mos1 /\ inst.params \notin defs.mos1insts
          IN unresolved => (elab'.status = "panic" /\ elab'.comps = elab.comps)
      ]_vars

C25_Witness ==
    /\ elab.status = "panic"
    /\ Len(elab.comps) = 1 /\ elab.comps[1].type = "Mos1"
    /\ elab.ckt.comps[2].name = "x1"
    /\ \E i \in DOMAIN elab.resolved :
          elab.resolved[i].res = "panic" /\ elab.resolved[i].node = Name("z")

\* C26: instantiating a module creates no variable for its ports.  In the
\* namespace of the instance every port name is bound to the variable (or
\* ground) the port map names in the enclosing scope, no other name of the
\* enclosing scope is visible, and the registry grows by exactly one fresh
\* variable per declared signal, named by the instance path; the primitives
\* of the body create no variable.
C26_PortsBindEnclosingVariables ==
    [][ (elab.status = "run" /\ elab'.status = "run"
            /\ elab.stack[Len(elab.stack)].todo # <<>>) =>
          LET frame == elab.stack[Len(elab.stack)]
              inst == Head(frame.todo)
          IN IF inst.type = "X"
             THEN LET inner == elab'.stack[Len(elab'.stack)]
                      signals == elab.ckt.defs.modules[inst.ref].signals
                      keys == {inst.ports[i][1] : i \in DOMAIN inst.ports}
                  IN /\ Len(elab'.stack) = Len(elab.stack) + 1
                     /\ \A i \in DOMAIN inst.ports :
                           inner.ns[inst.ports[i][1]] = frame.ns[inst.ports[i][2]]
                     /\ DOMAIN inner.ns = keys \cup {signals[j] : j \in DOMAIN signals}
                     /\ elab'.vars = elab.vars \o
                           [j \in DOMAIN signals |->
                               [kind |-> "V",
                                name |-> Join(elab.path \o <<inst.name, signals[j]>>)]]
             ELSE ~frame.autonode => elab'.vars = elab.vars
      ]_vars

\* elaborate called on a circuit of one top-level instance, the
\* self-instantiating circuits among them
InitElabLive ==
    /\ \E ckt \in {c \in Ckts : Len(c.comps) = 1} : elab = [ElabIdle EXCEPT !.ckt = ckt]
    /\ kind = "none" /\ mos1 = <<>> /\ mos0 = <<>> /\ nvars = 0 /\ phase = "new"
    /\ last = NoCall /\ lastAc = NoCall /\ ncommit = 0 /\ twin = NoTwin
    /\ build = NoBuild

\* the elaboration runs on: elaborate is one sequential call, so every step
\* that can be taken is taken
SpecElabLive == InitElabLive /\ [][NextElab]_vars /\ WF_vars(NextElab)

\* C27: the elaboration of every circuit terminates, also when a module
\* instantiates itself directly or through a cycle: it aborts on the depth of
\* the hierarchy only when the nesting exceeds 1024 instance levels, so that a
\* hierarchy of at most 1024 levels is never cut short by that check.
C27_ElaborationTerminates ==
    /\ <>(elab.status \in {"done", "panic"})
    /\ [](Len(elab.path) <= MaxPathLen + 1)
    /\ []((elab.status = "panic" /\ Len(elab.path) = Len(elab.stack))
            => Len(elab.path) > MaxPathLen)

C27_Witness ==
    /\ elab.status = "panic"
    /\ Len(elab.path) = MaxPathLen + 1
    /\ Len(elab.stack) = MaxPathLen + 1
    /\ elab.path[MaxPathLen + 1] = "xm"

\* the suffixes of a component list
IsSuffix(s, body) ==
    Len(s) <= Len(body) /\ s = SubSeq(body, Len(body) - Len(s) + 1, Len(body))

\* path[k] names the module instance body[i], the frame below it holds the
\* components of body after that instance and the frame above it what is left
\* of the body of the module it instantiates
Encloses(el, k, body, i) ==
    /\ body[i].type = "X"
    /\ body[i].name = el.path[k]
    /\ body[i].ref \in DOMAIN el.ckt.defs.modules
    /\ el.stack[k].todo = SubSeq(body, i + 1, Len(body))
    /\ IsSuffix(el.stack[k + 1].todo, el.ckt.defs.modules[body[i].ref].comps)

\* the names of the path are a chain of nested module instances: the first
\* one an instance of the circuit, each next one an instance of the body of
\* the module the one before it instantiates
EnclosingChain(el) ==
    \A k \in DOMAIN el.path :
        \E body \in IF k = 1 THEN {el.ckt.comps}
                     ELSE {el.ckt.defs.modules[r].comps : r \in DOMAIN el.ckt.defs.modules} :
            \E i \in DOMAIN body :
                /\ Encloses(el, k, body, i)
                /\ k < Len(el.path) =>
                      \E j \in DOMAIN el.ckt.defs.modules[body[i].ref].comps :
                          Encloses(el, k + 1, el.ckt.defs.modules[body[i].ref].comps, j)

\* C28: the path of the elaborator is balanced: between the calls of
\* elaborate_instance it holds exactly the names of the module instances
\* being elaborated, outermost first, whatever node_var, elaborate_signal and
\* the primitive arms pushed and popped meanwhile, and it is empty before
\* elaborate is called and when it returns.
C28_PathIsBalanced ==
    /\ elab.status \in {"idle", "done"} => elab.path = <<>>
    /\ elab.status = "run" =>
          /\ Len(elab.path) = Len(elab.stack) - 1
          /\ EnclosingChain(elab)

C28_Witness ==
    /\ elab.status = "run"
    /\ elab.path = <<"x1", "xn">>
    /\ elab.ckt.signals = <<"a">>
    /\ Len(elab.comps) = 3
    /\ elab.comps[1].type = "D" /\ elab.comps[1].ports[3] # elab.comps[1].ports[1]
    /\ \E i \in DOMAIN elab.vars : elab.vars[i].name = "x1.i"


----------------------------------------------------------------------------
(* Transient loads (Spec): the five capacitors and their integrations *)

\* the integq result of each of the five capacitors for a load at voltages e
\* on the accepted operating point of m: c are the gate capacitances, cbs and
\* cbd the junction capacitances
TranIntegsOf(m, e, c, cbs, cbd, an) ==
    LET op == m.op
        same == e.reversed = op.reversed
    IN [gs |-> Integq(an, (e.vgs - (IF same THEN op.vgs ELSE op.vgd)) * c.cgs, c.cgs,
                      e.vgs, IF same THEN op.tr.gs.i ELSE op.tr.gd.i),
        gd |-> Integq(an, (e.vgd - (IF same THEN op.vgd ELSE op.vgs)) * c.cgd, c.cgd,
                      e.vgd, IF same THEN op.tr.gd.i ELSE op.tr.gs.i),
        gb |-> Integq(an, (e.vgb - op.vgb) * c.cgb, c.cgb, e.vgb, op.tr.gb.i),
        bs |-> Integq(an, (-e.vsb + (IF same THEN op.vsb ELSE op.vdb)) * cbs, cbs,
                      -e.vsb, IF same THEN op.tr.gs.i ELSE op.tr.gd.i),
        bd |-> Integq(an, (-e.vdb + (IF same THEN op.vdb ELSE op.vsb)) * cbd, cbd,
                      -e.vdb, IF same THEN op.tr.gd.i ELSE op.tr.gs.i)]

TranIntegsAt(m, e, j, an) ==
    TranIntegsOf(m, e, OpCaps(m, e, OpMeyer(m, OpChannel(m, e).vov, e.vds)),
                 Qc(j.bs_junc, -e.vsb), Qc(j.bd_junc, -e.vdb), an)

TranIntegs(m, x, an) ==
    TranIntegsAt(m, OpVoltages(m, Vs(m, x)),
                 OpJunctions(m, OpVoltages(m, Vs(m, x)), OptionsDefault.gmin), an)

\* the five capacitors as branches between two terminals, with the companion
\* model q of each
TranBranches(reversed, q) ==
    LET sr == IF ~reversed THEN "SP" ELSE "DP"
        dr == IF ~reversed THEN "DP" ELSE "SP"
    IN << [a |-> "G", b |-> sr, q |-> q.gs],
          [a |-> "G", b |-> dr, q |-> q.gd],
          [a |-> "G", b |-> "B", q |-> q.gb],
          [a |-> "B", b |-> sr, q |-> q.bs],
          [a |-> "B", b |-> dr, q |-> q.bd] >>

\* what the companion conductances of the branches br add at matrix position
\* (r, c), and what their rhs values add to RHS row r, for port variables ports
\* and polarity p
BranchG(br, ports, r, c) ==
    SeqSum([i \in DOMAIN br |->
        LET va == ports[br[i].a]
            vb == ports[br[i].b]
            g == br[i].q.g
        IN (IF va = Some(r) /\ va = Some(c) THEN g ELSE 0)
           + (IF vb = Some(r) /\ vb = Some(c) THEN g ELSE 0)
           - (IF va = Some(r) /\ vb = Some(c) THEN g ELSE 0)
           - (IF vb = Some(r) /\ va = Some(c) THEN g ELSE 0)])

BranchRhs(br, ports, p, r) ==
    SeqSum([i \in DOMAIN br |->
        (IF ports[br[i].b] = Some(r) THEN p * br[i].q.rhs ELSE 0)
        - (IF ports[br[i].a] = Some(r) THEN p * br[i].q.rhs ELSE 0)])

\* C11: a TRAN load integrates each of the five capacitances C_gs, C_gd, C_gb,
\* C_bs, C_bd with integq, stores each result under the capacitor's own entry
\* of the transient state, and adds every (g_eq, rhs) pair to the returned
\* stamps on the two terminals of that capacitor.
C11_TranIntegratesFiveCaps ==
    (last.call = "load" /\ last.an.kind = "TRAN") =>
        /\ mos1.guess.tr = TranIntegs(mos1, last.x, last.an)
        /\ \A r \in 0..(nvars - 1), c \in 0..(nvars - 1) :
              GTotal(last.stamps.g, <<r, c>>)
                  - GTotal(OpStamp(mos1, Vs(mos1, last.x), AnOp, OptionsDefault).stamps.g,
                           <<r, c>>)
                = BranchG(TranBranches(mos1.guess.reversed,
                                       TranIntegs(mos1, last.x, last.an)),
                          mos1.ports, r, c)
        /\ \A r \in 0..(nvars - 1) :
              BTotal(last.stamps.b, Some(r))
                  - BTotal(OpStamp(mos1, Vs(mos1, last.x), AnOp, OptionsDefault).stamps.b,
                           Some(r))
                = BranchRhs(TranBranches(mos1.guess.reversed,
                                         TranIntegs(mos1, last.x, last.an)),
                            mos1.ports, P(mos1.model.mos_type), r)


----------------------------------------------------------------------------
(* SpecBuild: the construction of one Mos1 solver from a model card and an *)
(* instance card: Mos1Model::resolve, Mos1InstanceParams::resolve,         *)
(* Mos1InternalParams::derive, Mos1Vars::from.  A panic ends it.           *)

\* the parameter values tried on the cards, in model units
ToxVals == {None, Some(2)}

NsubVals == {None, Some(1), Some(2), Some(3)}

TpgVals == {None, Some(2)}

LdVals == {None, Some(1)}

LVals == {None, Some(2)}

ResVals == {None, Some(0), Some(2)}

TempVals == {None, Some(0), Some(1)}

InitBuild ==
    /\ \E mos_type \in MosType, tox \in ToxVals, nsub \in NsubVals, tpg \in TpgVals,
          ld \in LdVals, rd \in ResVals, rs \in ResVals, rsh \in ResVals,
          l \in LVals, temp \in TempVals, mask \in {{}, {"D"}} :
          build = [NoBuild EXCEPT
                     !.stage = "cards",
                     !.mspecs = ModelSpecs(mos_type, tox, nsub, tpg, ld, rd, rs, rsh),
                     !.ispecs = InstSpecs(l, temp),
                     !.terms = Terms(mask),
                     !.len = Cardinality(MosTerm \ mask),
                     !.nvars = Cardinality(MosTerm \ mask)]
    /\ kind = "none" /\ mos1 = <<>> /\ mos0 = <<>> /\ nvars = 0 /\ phase = "new"
    /\ last = NoCall /\ lastAc = NoCall /\ ncommit = 0 /\ twin = NoTwin
    /\ elab = ElabIdle

\* Mos1Model::resolve on the model card
ResolveModel ==
    /\ build.stage = "cards"
    /\ \E r \in {Mos1ModelResolve(build.mspecs)} :
          build' = IF r.status = "panic"
                   THEN [build EXCEPT !.stage = "panic", !.msg = r.msg]
                   ELSE [build EXCEPT !.stage = "model", !.model = r.model]
    /\ UNCHANGED <<kind, mos1, mos0, nvars, phase, last, lastAc, ncommit, twin, elab>>

\* Mos1InstanceParams::resolve on the instance card
ResolveInstance ==
    /\ build.stage = "model"
    /\ build' = [build EXCEPT !.stage = "inst",
                              !.inst = Mos1InstanceParamsResolve(build.ispecs)]
    /\ UNCHANGED <<kind, mos1, mos0, nvars, phase, last, lastAc, ncommit, twin, elab>>

\* Mos1InternalParams::derive
DeriveParams ==
    /\ build.stage = "inst"
    /\ \E r \in {DeriveResult(build.model, build.inst, OptionsDefault)} :
          build' = IF r.status = "panic"
                   THEN [build EXCEPT !.stage = "panic", !.msg = r.msg]
                   ELSE [build EXCEPT !.stage = "derived", !.intp = r.intp]
    /\ UNCHANGED <<kind, mos1, mos0, nvars, phase, last, lastAc, ncommit, twin, elab>>

\* Mos1Vars::from : the port variables, internal nodes added to the registry
VarsFrom ==
    /\ build.stage = "derived"
    /\ build' = [build EXCEPT !.stage = "built",
                              !.ports = Mos1VarsFrom(build.terms, build.model, build.len),
                              !.nvars = NvarsAfter(build.model, build.len)]
    /\ UNCHANGED <<kind, mos1, mos0, nvars, phase, last, lastAc, ncommit, twin, elab>>

NextBuild ==
    \/ ResolveModel
    \/ ResolveInstance
    \/ DeriveParams
    \/ VarsFrom

SpecBuild == InitBuild /\ [][NextBuild]_vars

\* C12: deriving the internal parameters fails for every model/instance pair
\* with L_eff = L - 2 LD <= 0, zero included: no internal parameters are
\* produced for such a device.
C12_NonPositiveLeffFails ==
    (build.stage \in {"derived", "built", "panic"} /\ build.inst # <<>>
        /\ build.inst.temp = None /\ build.inst.l - 2 * build.model.ld <= 0)
    => (build.stage = "panic" /\ build.intp = <<>>)


\* C13: resolving a model fails for every parameter set whose substrate doping
\* nsub is at most the intrinsic concentration n_i, whether tox is given or
\* absent.
C13_LowNsubFails ==
    (build.stage \notin {"none", "cards"} /\ IsSome(build.mspecs.nsub)
        /\ build.mspecs.nsub[1] * CmToM <= Ni)
    => (build.stage = "panic" /\ build.model = <<>>)


\* C15: the built Mos1 has an internal drain node D' distinct from D exactly
\* when the applicable drain resistance (rd, or rsh when rd is absent) is
\* non-zero, likewise S' and the applicable source resistance; otherwise D'
\* (S') is the variable of D (S) and the registry does not grow.
C15_InternalNodeIffResistance ==
    build.stage = "built" =>
        LET m == build.model
            rdrain == IF IsSome(m.rd) THEN m.rd[1] ELSE OrElse(m.rsh, 0)
            rsource == IF IsSome(m.rs) THEN m.rs[1] ELSE OrElse(m.rsh, 0)
            added == (IF rdrain # 0 THEN 1 ELSE 0) + (IF rsource # 0 THEN 1 ELSE 0)
        IN /\ (build.ports.DP # build.ports.D) <=> (rdrain # 0)
           /\ (build.ports.SP # build.ports.S) <=> (rsource # 0)
           /\ build.nvars = build.len + added


\* C20: deriving the internal parameters fails for every instance that gives
\* an instance temperature, whatever its value, and takes options.temp as the
\* device temperature of every instance that gives none.
C20_InstanceTempRejected ==
    (build.stage \in {"derived", "built", "panic"} /\ build.inst # <<>>) =>
        IF IsSome(build.inst.temp)
        THEN build.stage = "panic" /\ build.intp = <<>>
        ELSE build.stage # "panic" =>
                /\ build.intp.temp = OptionsDefault.temp
                /\ build.intp.vtherm = OptionsDefault.temp * KbOverQ

C20_Witness ==
    /\ build.stage = "panic"
    /\ build.inst # <<>>
    /\ build.inst.temp = Some(OptionsDefault.temp)
    /\ build.inst.l - 2 * build.model.ld > 0
    /\ build.msg = "Mos1 Instance Temperatures Are Not Supported"


----------------------------------------------------------------------------
(* SpecTemp: the temperature adjustment of the transconductance in derive,  *)
(* applied to a model kp, a device temperature and a nominal temperature.   *)

\* model.kp, multiples of 64 so that the quotients below are exact
KpVals == {64, 128, 192}

\* (temp, tnom) in model units, temp / tnom in {1, 4, 16}
TempPairs == {<<1, 1>>, <<4, 1>>, <<16, 1>>, <<4, 4>>, <<16, 4>>}

\* inst.w and the effective length
WVals == {1, 2, 3}

LeffVals == {1, 2, 4}

InitTemp ==
    /\ \E kp \in KpVals, tt \in TempPairs, w \in WVals, leff \in LeffVals :
          build = [NoBuild EXCEPT
                     !.stage = "tcards",
                     !.tadj = [kp |-> kp, temp |-> tt[1], tnom |-> tt[2], w |-> w,
                               leff |-> leff, kp_t |-> 0, beta |-> 0]]
    /\ kind = "none" /\ mos1 = <<>> /\ mos0 = <<>> /\ nvars = 0 /\ phase = "new"
    /\ last = NoCall /\ lastAc = NoCall /\ ncommit = 0 /\ twin = NoTwin
    /\ elab = ElabIdle

\* derive computes kp_t and beta
TempAdjust ==
    /\ build.stage = "tcards"
    /\ \E k \in {KpT(build.tadj.kp, build.tadj.temp, build.tadj.tnom)} :
          build' = [build EXCEPT !.stage = "tadjusted",
                                 !.tadj.kp_t = k,
                                 !.tadj.beta = Beta(k, build.tadj.w, build.tadj.leff)]
    /\ UNCHANGED <<kind, mos1, mos0, nvars, phase, last, lastAc, ncommit, twin, elab>>

NextTemp == TempAdjust

SpecTemp == InitTemp /\ [][NextTemp]_vars

\* C21: KP(T) = KP(T_nom) * (T / T_nom)^(-3/2) for every device and nominal
\* temperature (T / T_nom = 4 gives KP / 8), and beta = KP(T) * W / L_eff.
C21_KpTemperatureLaw ==
    build.stage = "tadjusted" =>
        LET a == build.tadj
            ratio == Div(a.temp, a.tnom)
        IN /\ a.kp_t * ratio * Sqrt(ratio) = a.kp
           /\ a.beta * a.leff <= a.kp_t * a.w
           /\ a.kp_t * a.w < (a.beta + 1) * a.leff


----------------------------------------------------------------------------
(* SpecTran: a transient run of one MOS device, with and without terminal   *)
(* resistances: the DC operating point is loaded and committed, then every  *)
(* time step is loaded and committed in turn.  A Mos0 has no state to       *)
(* commit and is loaded under either analysis.                              *)

\* bound of the number of accepted points, the DC operating point included
MaxTranCommits == 2

InitTran ==
    \E k \in {"mos0", "mos1"}, mos_type \in MosType, mask \in OneNodeMasks,
       res \in {NoRes, BothRes, DrainRes, ZeroRes} :
        /\ k = "mos0" => res = NoRes
        /\ InitWith(k, mos_type, 2, 1, res, Mos1InstanceParamsDefault, mask)
        /\ twin = NoTwin

NextTran ==
    \/ CreateMatrixElems
    \/ ncommit = 0 /\ \E x \in Iterates : Load(x, AnOp)
    \/ ncommit > 0 /\ \E x \in Iterates, h \in 1..MaxH : Load(x, AnTran(h))
    \/ last.call = "load" /\ CommitUpTo(MaxTranCommits)
    \/ \E x \in Iterates, an \in {AnOp} \cup {AnTran(h) : h \in 1..MaxH} : LoadMos0(x, an)

SpecTran == InitTran /\ [][NextTran]_vars

\* C24: in TRAN the previous-step current handed to integq for each capacitor
\* is the current stored for that capacitor in the committed op: the entries
\* gs, gd, gb, bs, bd when reversed equals the committed flag, with gs and gd
\* and bs and bd exchanged when the flag has changed since the commit.
C24_PrevCurrentOfSameCapacitor ==
    (kind = "mos1" /\ last.call = "load" /\ last.an.kind = "TRAN") =>
        LET q == TranIntegs(mos1, last.x, last.an)
            o == mos1.guess
            op == mos1.op
            \* i_eq = g_eq v - i_prev : the i_prev that gave the result r at v
            IPrev(r, v) == r.g * v - r.i
            Stored(a, b) == IF o.reversed = op.reversed THEN op.tr[a].i ELSE op.tr[b].i
        IN /\ IPrev(q.gs, o.vgs) = Stored("gs", "gd")
           /\ IPrev(q.gd, o.vgd) = Stored("gd", "gs")
           /\ IPrev(q.gb, o.vgb) = op.tr.gb.i
           /\ IPrev(q.bs, -o.vsb) = Stored("bs", "bd")
           /\ IPrev(q.bd, -o.vdb) = Stored("bd", "bs")

\* the sum of the values f[i] over the indices i of I
RECURSIVE SumOver(_, _)
SumOver(f, I) ==
    IF I = {} THEN 0
    ELSE LET i == CHOOSE j \in I : TRUE IN f[i] + SumOver(f, I \ {i})

\* C29: the stamps of every load conserve current.  Over the terminals of the
\* device (the ground included), the matrix values of each column sum to zero
\* over the rows, those of each row sum to zero over the columns, and the RHS
\* values sum to zero; the same holds when the entries are collected by the
\* variables the terminals are connected to.
C29_StampsConserveCurrent ==
    last.call = "load" =>
        LET g == last.stamps.g
            b == last.stamps.b
            gv == [i \in DOMAIN g |-> g[i].v]
            bv == [i \in DOMAIN b |-> b[i].v]
            Row(i) == DevPorts[g[i].pos[1]]
            Col(i) == DevPorts[g[i].pos[2]]
        IN /\ \A t \in Mos1Var :
                 /\ SumOver(gv, {i \in DOMAIN g : g[i].pos[2] = t}) = 0
                 /\ SumOver(gv, {i \in DOMAIN g : g[i].pos[1] = t}) = 0
           /\ \A t \in Mos1Var \cap DOMAIN DevPorts :
                 /\ SumOver(gv, {i \in DOMAIN g : Col(i) = DevPorts[t]}) = 0
                 /\ SumOver(gv, {i \in DOMAIN g : Row(i) = DevPorts[t]}) = 0
           /\ SumOver(bv, DOMAIN b) = 0
           /\ \A i \in DOMAIN b : b[i].var = DevPorts[b[i].t]

\* C29 witness: a reversed TRAN load of a Mos1 with both internal nodes, a
\* conducting channel and capacitive entries
C29_Witness ==
    /\ kind = "mos1" /\ last.call = "load" /\ last.an.kind = "TRAN"
    /\ mos1.guess.reversed /\ mos1.guess.ids > 0
    /\ mos1.ports["DP"] # mos1.ports["D"] /\ mos1.ports["SP"] # mos1.ports["S"]
    /\ mos1.intparams.grd > 0 /\ mos1.intparams.grs > 0
    /\ mos1.guess.tr.gs.g > 0
    /\ \E i \in DOMAIN last.stamps.b : last.stamps.b[i].v # 0

\* C30: an internal node is never left floating.  Whenever D' (S') of a Mos1
\* is a variable of its own, every load stamps a strictly positive finite
\* conductance between it and D (S): a positive value on both diagonals and
\* its negative at both off-diagonal positions.
C30_InternalNodeIsConnected ==
    (kind = "mos1" /\ last.call = "load") =>
        LET g == last.stamps.g
            gv == [i \in DOMAIN g |-> g[i].v]
            At(r, c) == SumOver(gv, {i \in DOMAIN g : g[i].pos = <<r, c>>})
            Connected(x, r) ==
                /\ At(x, r) < 0 /\ At(x, r) > -Infinity
                /\ At(r, x) = At(x, r)
                /\ At(x, x) = -At(x, r)
        IN /\ mos1.ports["DP"] # mos1.ports["D"] => Connected("D", "DP")
           /\ mos1.ports["SP"] # mos1.ports["S"] => Connected("S", "SP")

====
